---- MODULE Spec2Model ----
(***************************************************************************)
(* bind-property: bindable properties with a synchronous pre-commit veto   *)
(* phase and commit notifications that are queued and flushed from a       *)
(* requestAnimationFrame callback.                                         *)
(*                                                                         *)
(* Modelled from the decorator entry point (createGetter, createSetter,    *)
(* notifyPreCommit, bindable) and from utils.js lines 1-270 (the store,    *)
(* the four registry methods, queueNotification, notify,                   *)
(* buildPriorityQueue, priorityComparator).                                *)
(*                                                                         *)
(* Two instances X and Y of one class whose prototype binds three          *)
(* properties: "a" and "b" are plain fields, "age" has a pre-existing      *)
(* get/set pair whose setter casts (clamps) the value it is given.         *)
(* JavaScript is single threaded: while the frame callback runs, only the  *)
(* listener being invoked acts.                                            *)
(***************************************************************************)
EXTENDS Integers, Sequences, FiniteSets, TLC

\* ------------------------------------------------------------ bounds
\* Spec: one owner, every kind of operation
\* setter calls in one behaviour (top level and from inside listeners)
MaxWrites == 2
\* SpecPriority: setter calls in one behaviour
MaxWritesPriority == 1
\* SpecPriority: add/remove listener calls in one behaviour
MaxRegistryOpsPriority == 6
\* SpecOwners: setter calls in one behaviour
MaxWritesOwners == 3
\* SpecPreCommit: setter calls, and add/remove listener calls, in one behaviour
MaxWritesPreCommit == 1
MaxRegistryOpsPreCommit == 4
\* SpecReturn: setter calls in one behaviour
MaxWritesReturn == 2
\* SpecRegistry: setter calls, and add/remove listener calls, in one behaviour
MaxWritesRegistry == 1
MaxRegistryOpsRegistry == 4

\* SpecBind: bindable() calls, setter calls, and add/remove listener calls,
\* in one behaviour
MaxBinds == 4
MaxWritesBind == 1
MaxRegistryOpsBind == 2

\* SpecThrow: setter calls, and add/remove listener calls, in one behaviour
MaxWritesThrow == 2
MaxRegistryOpsThrow == 3

\* SpecIsolation: setter calls, and add/remove listener calls, in one behaviour
MaxWritesIsolation == 2
MaxRegistryOpsIsolation == 3

\* SpecDelivery: setter calls, and add/remove listener calls, in one behaviour
MaxWritesDelivery == 3
MaxRegistryOpsDelivery == 2

\* SpecCommitThrow: setter calls, and add/remove listener calls, in one
\* behaviour
MaxWritesCommitThrow == 3
MaxRegistryOpsCommitThrow == 2

\* SpecDescriptor: setter calls, and add/remove listener calls, in one
\* behaviour
MaxWritesDescriptor == 2
MaxRegistryOpsDescriptor == 3

\* SpecKinds: setter calls, and add/remove listener calls, in one behaviour
MaxWritesKinds == 2
MaxRegistryOpsKinds == 4

\* SpecHistory: setter calls, and add/remove listener calls, in one behaviour
MaxWritesHistory == 2
MaxRegistryOpsHistory == 3

\* ------------------------------------------------------------ inputs
Owners == {"X", "Y"}
Props == {"a", "b", "age"}
\* 0 stands for undefined, the value of a property never written
Values == {0, 1, 2}
Priorities == {1, 5}
CommitCallbacks == {"L1", "L2", "L3"}
PreCommitCallbacks == {"P1", "P2", "P3"}
\* what a pre-commit listener may return; only "false" is === false
RetVals == {"false", "true", "undefined"}

\* ------------------------------------------------------------ descriptors
\* Object.getOwnPropertyDescriptor(prototype, property) at decoration time
HasSet(property) == property = "age"
HasGet(property) == property = "age"
\* the pre-existing setter of "age": this._age = Math.min(value, 1)
Cast(v) == IF v > 1 THEN 1 ELSE v

\* mutant: the queue is an array that takes an element again
SetAddAgain(set, x) == Append(set, x)

\* ------------------------------------------------------------ maps
EmptyMap == [x \in {} |-> x]
Put(m, k, v) == [x \in (DOMAIN m) \cup {k} |-> IF x = k THEN v ELSE m[x]]

\* A JS Map of callback -> priority keeps insertion order; set() on a key
\* that is present keeps its position and replaces the value.
MapHas(map, callback) == \E i \in 1..Len(map) : map[i].callback = callback
\* mutant: a list that takes the callback again
MapSetAgain(map, callback, priority) ==
  Append(map, [callback |-> callback, priority |-> priority])
MapSet(map, callback, priority) ==
  IF MapHas(map, callback)
  THEN [i \in 1..Len(map) |->
          IF map[i].callback = callback
          THEN [callback |-> callback, priority |-> priority]
          ELSE map[i]]
  ELSE Append(map, [callback |-> callback, priority |-> priority])
\* mutant: splice at the index found, which removes the last entry when the
\* callback is absent
MapDeleteSplice(map, callback) ==
  IF MapHas(map, callback) \/ map = <<>>
  THEN SelectSeq(map, LAMBDA e : e.callback # callback)
  ELSE SubSeq(map, 1, Len(map) - 1)
\* Map.delete: removes the entry if there is one
MapDelete(map, callback) == SelectSeq(map, LAMBDA e : e.callback # callback)

\* mutant: an element that is added again moves to the end
SetAddLast(set, x) == Append(SelectSeq(set, LAMBDA e : e # x), x)

\* Set.add on the insertion-ordered Set of sources
SetAdd(set, x) == IF \E i \in 1..Len(set) : set[i] = x THEN set ELSE Append(set, x)

VARIABLES
  propertyValues,        \* activeBindings side table: owner -> property -> value
  backing,               \* owner -> the field behind the pre-existing accessor
  suspendNotifications,  \* owner -> flag
  shareStore,            \* owner -> the four collections of createStore
  changesByObject,       \* source -> property -> {oldValue, newValue}
  queue,                 \* Set of sources, in insertion order
  nextFrameId,           \* 0: undefined/null, 1: a handle
  frames,                \* animation-frame callbacks requested and not yet run
  flushing,              \* the frame callback is on the stack
  processingQueue,       \* sources of the snapshot still to notify
  processingChanges,     \* the snapshot of changesByObject
  notifying,             \* notify()'s forEach is running for Head(processingQueue)
  forEachIndex,          \* next index forEach visits (1-based)
  forEachLen,            \* the length forEach read when it started
  log,                   \* history: commit listener calls of the flush in progress
  notified,              \* history: notify() calls of the flush in progress
  lastWrite,             \* history: what the latest setter call did
  cycle,                 \* history: the writes notified since the last snapshot
  processingCycle,       \* history: cycle as it was at the snapshot
  prototype,             \* the decorated class's prototype: mixin, descriptors
  lastBind,              \* history: what the latest bindable() call did
  lastRegistry,          \* history: what the latest add/remove listener call did
  delivered,             \* history: <<source, property>> given to an earlier flush
  lastThrow,             \* history: the latest flush ended by a listener's exception
  used,                  \* history: operations counted so far
  limit                  \* the bounds of the specification being explored

vars == <<propertyValues, backing, suspendNotifications, shareStore,
          changesByObject, queue, nextFrameId, frames, flushing,
          processingQueue, processingChanges, notifying, forEachIndex,
          forEachLen, log, notified, lastWrite, cycle, processingCycle,
          prototype, lastBind, lastRegistry, delivered, lastThrow,
          used, limit>>


\* ------------------------------------------------------------ priority queue
\* ~~priority: ToInt32, which leaves the small integers used here unchanged
PriorityComparator(item1, item2) ==
  LET p1 == item1.priority
      p2 == item2.priority
  IN IF p1 = p2 THEN 0 ELSE IF p1 > p2 THEN 1 ELSE -1

\* mutant: an element goes before the elements it compares equal to
SortedInsertBeforeEqual(sorted, item) ==
  LET keep == {i \in 1..Len(sorted) : PriorityComparator(sorted[i], item) < 0}
      n == IF keep = {} THEN 0 ELSE CHOOSE i \in keep : \A j \in keep : j <= i
  IN SubSeq(sorted, 1, n) \o <<item>> \o SubSeq(sorted, n + 1, Len(sorted))

\* Array.prototype.sort is stable: an element goes after every element that
\* does not compare greater than it.
SortedInsert(sorted, item) ==
  LET keep == {i \in 1..Len(sorted) : PriorityComparator(sorted[i], item) <= 0}
      n == IF keep = {} THEN 0 ELSE CHOOSE i \in keep : \A j \in keep : j <= i
  IN SubSeq(sorted, 1, n) \o <<item>> \o SubSeq(sorted, n + 1, Len(sorted))

RECURSIVE ArraySort(_, _)
ArraySort(items, sorted) ==
  IF items = <<>> THEN sorted
  ELSE ArraySort(Tail(items), SortedInsert(sorted, Head(items)))

\* callbackMap.forEach pushes {priority, callback} in insertion order, then
\* the array is sorted
BuildPriorityQueue(callbackMap, array) ==
  ArraySort(array \o [i \in 1..Len(callbackMap) |->
                      [priority |-> callbackMap[i].priority,
                       callback |-> callbackMap[i].callback]], <<>>)

\* ------------------------------------------------------------ store
CreateStore ==
  [changeListeners |-> <<>>, preCommitListeners |-> <<>>,
   preCommitPriorityQueue |-> <<>>, priorityQueue |-> <<>>]

GetChangeListeners(store, self) == store[self].changeListeners
GetPreCommitListeners(store, self) == store[self].preCommitListeners
GetPriorityQueue(store, source, type) == store[source][type]

\* mutant: the cached array is left as it is
RemoveChangeListenerKeepsQueue(store, self, callback) ==
  [store EXCEPT ![self].changeListeners = MapDelete(@, callback)]

\* mutant: the cached array is left as it is
AddChangeListenerKeepsQueue(store, self, callback, priority) ==
  [store EXCEPT ![self].changeListeners = MapSet(@, callback, priority)]

\* mutant: one collection of change listeners for all the instances
AddChangeListenerAll(store, self, callback, priority) ==
  [o \in DOMAIN store |->
     [store[o] EXCEPT !.priorityQueue = <<>>,
                      !.changeListeners = MapSet(@, callback, priority)]]

AddChangeListener(store, self, callback, priority) ==
  [store EXCEPT ![self].priorityQueue = <<>>,
                ![self].changeListeners = MapSet(@, callback, priority)]

RemoveChangeListener(store, self, callback) ==
  [store EXCEPT ![self].priorityQueue = <<>>,
                ![self].changeListeners = MapDelete(@, callback)]

\* mutant: one collection serves both kinds of listener
AddPreCommitListenerShared(store, self, callback, priority) ==
  [store EXCEPT ![self].preCommitPriorityQueue = <<>>,
                ![self].preCommitListeners = MapSet(@, callback, priority),
                ![self].priorityQueue = <<>>,
                ![self].changeListeners = MapSet(@, callback, priority)]

AddPreCommitListener(store, self, callback, priority) ==
  [store EXCEPT ![self].preCommitPriorityQueue = <<>>,
                ![self].preCommitListeners = MapSet(@, callback, priority)]

RemovePreCommitListener(store, self, callback) ==
  [store EXCEPT ![self].preCommitPriorityQueue = <<>>,
                ![self].preCommitListeners = MapDelete(@, callback)]

\* ------------------------------------------------------------ scheduler
\* the module-level state of queueNotification, passed as one record
Sched ==
  [changesByObject |-> changesByObject, queue |-> queue,
   nextFrameId |-> nextFrameId, frames |-> frames]

\* mutant: the handle is kept but no callback is left with the scheduler
ProcessQueueNoFrame(s) == [s EXCEPT !.nextFrameId = 1]

\* processQueue(): nextFrameId = requestAnimationFrame(callback)
ProcessQueue(s) == [s EXCEPT !.nextFrameId = 1, !.frames = @ + 1]

\* mutant: an entry already pending keeps its oldValue
QueueNotificationFirstOld(s, source, propertyName, oldValue, newValue) ==
  IF oldValue = newValue THEN s
  ELSE LET changes == IF source \in DOMAIN s.changesByObject
                      THEN s.changesByObject[source] ELSE EmptyMap
           first == IF propertyName \in DOMAIN changes
                    THEN changes[propertyName].oldValue ELSE oldValue
           entry == [oldValue |-> first, newValue |-> newValue]
           s1 == [s EXCEPT !.changesByObject =
                             Put(@, source, Put(changes, propertyName, entry)),
                           !.queue = SetAdd(@, source)]
       IN IF s1.nextFrameId # 0 THEN s1 ELSE ProcessQueue(s1)

\* mutant: the owner's map is made anew for every change
QueueNotificationFresh(s, source, propertyName, oldValue, newValue) ==
  IF oldValue = newValue THEN s
  ELSE LET entry == [oldValue |-> oldValue, newValue |-> newValue]
           s1 == [s EXCEPT !.changesByObject =
                             Put(@, source, Put(EmptyMap, propertyName, entry)),
                           !.queue = SetAdd(@, source)]
       IN IF s1.nextFrameId # 0 THEN s1 ELSE ProcessQueue(s1)

QueueNotification(s, source, propertyName, oldValue, newValue) ==
  IF oldValue = newValue THEN s
  ELSE LET changes == IF source \in DOMAIN s.changesByObject
                      THEN s.changesByObject[source] ELSE EmptyMap
           entry == [oldValue |-> oldValue, newValue |-> newValue]
           s1 == [s EXCEPT !.changesByObject =
                             Put(@, source, Put(changes, propertyName, entry)),
                           !.queue = SetAdd(@, source)]
       IN IF s1.nextFrameId # 0 THEN s1 ELSE ProcessQueue(s1)

\* ------------------------------------------------------------ accessors
\* get: descriptor.get || createGetter(property)
Read(self, property) ==
  IF HasGet(property) THEN backing[self] ELSE propertyValues[self][property]

\* the array notifyPreCommit iterates: the cached one, rebuilt when empty
PreCommitQueue(self) ==
  LET array == GetPriorityQueue(shareStore, self, "preCommitPriorityQueue")
  IN IF Len(array) = 0
     THEN BuildPriorityQueue(GetPreCommitListeners(shareStore, self), array)
     ELSE array

\* mutant: any return value other than true cancels
RECURSIVE NotifyPreCommitNotTrue(_, _, _)
NotifyPreCommitNotTrue(returns, i, canceled) ==
  IF i > Len(returns) THEN canceled
  ELSE NotifyPreCommitNotTrue(returns, i + 1, (returns[i] # "true") \/ canceled)

\* mutant: the last listener called decides
RECURSIVE NotifyPreCommitLastDecides(_, _, _)
NotifyPreCommitLastDecides(returns, i, canceled) ==
  IF i > Len(returns) THEN canceled
  ELSE NotifyPreCommitLastDecides(returns, i + 1, returns[i] = "false")

\* mutant: the result of the listeners is lost
NotifyPreCommitIgnored(returns, i, canceled) == FALSE

\* canceled = (item.callback(...) === false) || canceled, over the array
RECURSIVE NotifyPreCommit(_, _, _)
NotifyPreCommit(returns, i, canceled) ==
  IF i > Len(returns) THEN canceled
  ELSE NotifyPreCommit(returns, i + 1, (returns[i] = "false") \/ canceled)

\* the value the setter compares with newValue: the stored one, or what the
\* pre-existing getter returns after the pre-existing setter ran
SetterValue(self, property, newValue) ==
  IF HasSet(property) /\ HasGet(property) THEN Cast(newValue)
  ELSE propertyValues[self][property]

\* mutant: the setter never returns early
SetterNoopNever(self, property, newValue) == FALSE

\* value === newValue: the setter returns before any dispatch
SetterNoop(self, property, newValue) ==
  SetterValue(self, property, newValue) = newValue

\* number of pre-commit listeners the setter will call
PreCommitCalls(self, property, newValue) ==
  IF SetterNoop(self, property, newValue) THEN 0 ELSE Len(PreCommitQueue(self))

\* mutant: the suspend flag is not consulted
ShouldQueueIgnoresSuspend(self) ==
  Len(GetChangeListeners(shareStore, self)) > 0

\* mutant: the setter does not look for change listeners
ShouldQueueIgnoresListeners(self) ==
  suspendNotifications[self] = FALSE

\* suspendNotifications === false && the owner has a change listener
ShouldQueue(self) ==
  /\ suspendNotifications[self] = FALSE
  /\ Len(GetChangeListeners(shareStore, self)) > 0

\* the last pre-commit listener called threw: forEach, notifyPreCommit and the
\* setter end there, the exception reaching the code that assigned
Threw(returns) == returns # <<>> /\ returns[Len(returns)] = "throw"

\* returns describes one run of notifyPreCommit over n listeners: all n
\* return, or the calls end with the first one that throws
ReturnsOf(n, returns) ==
  /\ \A i \in 1..(Len(returns) - 1) : returns[i] # "throw"
  /\ IF Threw(returns) THEN Len(returns) <= n ELSE Len(returns) = n

\* history: some pre-commit listener returned exactly false
Vetoed(returns) == \E i \in 1..Len(returns) : returns[i] = "false"

\* mutant: the third argument is whether the previous listener returned false
RECURSIVE NotifyPreCommitCallsPrevious(_, _, _, _)
NotifyPreCommitCallsPrevious(array, returns, i, canceled) ==
  IF i > Len(returns) THEN <<>>
  ELSE <<[callback |-> array[i].callback, priority |-> array[i].priority,
          canceled |-> canceled, returned |-> returns[i]]>>
       \o NotifyPreCommitCallsPrevious(array, returns, i + 1,
                                       returns[i] = "false")

\* the calls queue.forEach makes in notifyPreCommit:
\* item.callback(source, changes, canceled, item.priority), canceled being
\* the variable as the calls before this one left it
RECURSIVE NotifyPreCommitCalls(_, _, _, _)
NotifyPreCommitCalls(array, returns, i, canceled) ==
  IF i > Len(returns) THEN <<>>
  ELSE <<[callback |-> array[i].callback, priority |-> array[i].priority,
          canceled |-> canceled, returned |-> returns[i]]>>
       \o NotifyPreCommitCalls(array, returns, i + 1,
                               (returns[i] = "false") \/ canceled)

\* history: the arguments and result of each pre-commit listener call
PreCommitCallLog(array, returns) ==
  NotifyPreCommitCalls(array, returns, 1, FALSE)

\* mutant: the values object is assigned before notifyPreCommit is called
ReadDuringPreCommitStored(self, property, newValue) == newValue

\* what reading the property yields while notifyPreCommit runs (line 35): the
\* class's setter, if any, has run (line 28); the values object has not been
\* assigned yet (line 42)
ReadDuringPreCommit(self, property, newValue) ==
  IF HasGet(property) THEN Cast(newValue)
  ELSE propertyValues[self][property]

\* history: a write that is no no-op for the setter, is not vetoed, and is
\* made on an owner that is not suspended and has a change listener
Notifiable(self, property, newValue, returns) ==
  /\ ~SetterNoop(self, property, newValue)
  /\ ~Vetoed(returns)
  /\ ~Threw(returns)
  /\ suspendNotifications[self] = FALSE
  /\ Len(shareStore[self].changeListeners) > 0

\* history: the place of an owner among the owners notified in the cycle,
\* by the first notified write made to each
CycleRank(self) ==
  IF cycle[self] # EmptyMap
  THEN cycle[self][CHOOSE p \in DOMAIN cycle[self] : TRUE].rank
  ELSE 1 + Cardinality({o \in Owners : cycle[o] # EmptyMap})

CycleAfter(self, property, newValue, returns) ==
  IF Notifiable(self, property, newValue, returns)
  THEN [cycle EXCEPT ![self] =
          Put(@, property,
              [first |-> IF property \in DOMAIN @ THEN @[property].first
                         ELSE Read(self, property),
               lastOld |-> Read(self, property),
               last |-> newValue,
               rank |-> CycleRank(self)])]
  ELSE cycle

\* the function createSetter returns, called as self[property] = newValue;
\* returns[i] is what the i-th pre-commit listener called returns
\* (the setter of a property that bindable wrapped exactly once)
SetterCall(self, property, newValue, returns) ==
  LET oldValue == SetterValue(self, property, newValue)
      noop == SetterNoop(self, property, newValue)
      canceled == ~noop /\ NotifyPreCommit(returns, 1, FALSE)
      proceed == ~noop /\ ~canceled /\ ~Threw(returns)
      s == IF proceed /\ ShouldQueue(self)
           THEN QueueNotification(Sched, self, property, oldValue, newValue)
           ELSE Sched
  IN /\ used.writes < limit.writes
     /\ prototype.descriptors[property].set = 1
     /\ ReturnsOf(PreCommitCalls(self, property, newValue), returns)
     /\ backing' = IF HasSet(property)
                   THEN [backing EXCEPT ![self] = Cast(newValue)] ELSE backing
     /\ shareStore' = IF noop THEN shareStore
                      ELSE [shareStore EXCEPT
                              ![self].preCommitPriorityQueue = PreCommitQueue(self)]
     /\ propertyValues' = IF proceed
                          THEN [propertyValues EXCEPT ![self][property] = newValue]
                          ELSE propertyValues
     /\ changesByObject' = s.changesByObject
     /\ queue' = s.queue
     /\ nextFrameId' = s.nextFrameId
     /\ frames' = s.frames
     /\ lastWrite' = [source |-> self, property |-> property,
                      newValue |-> newValue, before |-> Read(self, property),
                      calls |-> PreCommitCallLog(PreCommitQueue(self), returns),
                      suspended |-> suspendNotifications[self],
                      inFlush |-> flushing, canceled |-> canceled,
                      threw |-> Threw(returns),
                      changes |-> [oldValue |-> oldValue,
                                   newValue |-> newValue],
                      readInCall |->
                        ReadDuringPreCommit(self, property, newValue)]
     /\ cycle' = CycleAfter(self, property, newValue, returns)
     /\ used' = [used EXCEPT !.writes = @ + 1]
     /\ UNCHANGED <<prototype, lastBind, lastRegistry, delivered, lastThrow,
                    limit>>

\* ------------------------------------------------------------ bindable(descriptor)
\* the variable value of the descriptor variant's setter: declared without a
\* value (let value;), assigned only from a pre-existing getter after the
\* pre-existing setter ran; 0 is undefined
DescriptorSetterValue(property, newValue) ==
  IF HasSet(property) /\ HasGet(property) THEN Cast(newValue) ELSE 0

\* value === newValue in the descriptor variant
DescriptorSetterNoop(property, newValue) ==
  DescriptorSetterValue(property, newValue) = newValue

\* number of pre-commit listeners the descriptor variant's setter will call
DescriptorPreCommitCalls(self, property, newValue) ==
  IF DescriptorSetterNoop(property, newValue) THEN 0
  ELSE Len(PreCommitQueue(self))

\* the set function of the descriptor bindable(descriptor) returns:
\* oldValue is read from the values map, the values map is assigned before
\* queueNotification is called
DescriptorSetterCall(self, property, newValue, returns) ==
  LET oldValue == propertyValues[self][property]
      noop == DescriptorSetterNoop(property, newValue)
      canceled == ~noop /\ NotifyPreCommit(returns, 1, FALSE)
      proceed == ~noop /\ ~canceled /\ ~Threw(returns)
      notifiable == proceed /\ ShouldQueue(self) /\ oldValue # newValue
      s == IF proceed /\ ShouldQueue(self)
           THEN QueueNotification(Sched, self, property, oldValue, newValue)
           ELSE Sched
  IN /\ used.writes < limit.writes
     /\ prototype.mixin
     /\ ReturnsOf(DescriptorPreCommitCalls(self, property, newValue), returns)
     /\ backing' = IF HasSet(property)
                   THEN [backing EXCEPT ![self] = Cast(newValue)] ELSE backing
     /\ shareStore' = IF noop THEN shareStore
                      ELSE [shareStore EXCEPT
                              ![self].preCommitPriorityQueue = PreCommitQueue(self)]
     /\ propertyValues' = IF proceed
                          THEN [propertyValues EXCEPT ![self][property] = newValue]
                          ELSE propertyValues
     /\ changesByObject' = s.changesByObject
     /\ queue' = s.queue
     /\ nextFrameId' = s.nextFrameId
     /\ frames' = s.frames
     /\ lastWrite' = [source |-> self, property |-> property,
                      newValue |-> newValue, before |-> Read(self, property),
                      calls |-> PreCommitCallLog(PreCommitQueue(self), returns),
                      suspended |-> suspendNotifications[self],
                      inFlush |-> flushing, canceled |-> canceled,
                      threw |-> Threw(returns),
                      changes |-> [oldValue |-> oldValue,
                                   newValue |-> newValue],
                      readInCall |->
                        ReadDuringPreCommit(self, property, newValue)]
     /\ cycle' = IF notifiable
                 THEN [cycle EXCEPT ![self] =
                         Put(@, property,
                             [first |-> IF property \in DOMAIN @
                                        THEN @[property].first ELSE oldValue,
                              lastOld |-> oldValue,
                              last |-> newValue,
                              rank |-> CycleRank(self)])]
                 ELSE cycle
     /\ used' = [used EXCEPT !.writes = @ + 1]
     /\ UNCHANGED <<prototype, lastBind, lastRegistry, delivered, lastThrow,
                    limit>>

\* ------------------------------------------------------------ bindable
\* a property descriptor of the prototype: own is FALSE when
\* getOwnPropertyDescriptor returns undefined; get names the getter function;
\* set counts the createSetter functions wrapped around the class's own set
Undeclared ==
  [own |-> FALSE, get |-> "undefined", set |-> 0, configurable |-> FALSE]

\* the accessor pair a class body declares (configurable, not enumerable)
ClassAccessor ==
  [own |-> TRUE, get |-> "classGetter", set |-> 0, configurable |-> TRUE]

\* the prototype of the class as written, before any decorator ran
Declared ==
  [mixin |-> FALSE,
   descriptors |-> [p \in Props |-> IF HasGet(p) THEN ClassAccessor
                                    ELSE Undeclared]]

\* the keys of the activeBindings WeakMap: the instances that were read or
\* written and the prototypes that were mixed in
ActiveBindingsHas(proto, key) ==
  key \in Owners \cup (IF proto.mixin THEN {"prototype"} ELSE {})

\* Object.defineProperty(prototype, property, {get, set, enumerable}): an
\* absent attribute of a new property defaults to false, one of an existing
\* property is kept; a non-configurable accessor accepts only the functions it
\* already has
DefineProperty(descriptor, get, set) ==
  IF ~descriptor.own
  THEN [threw |-> FALSE,
        descriptor |-> [own |-> TRUE, get |-> get, set |-> set,
                        configurable |-> FALSE]]
  ELSE IF descriptor.configurable
       THEN [threw |-> FALSE,
             descriptor |-> [descriptor EXCEPT !.get = get, !.set = set]]
       ELSE [threw |-> get # descriptor.get \/ set # descriptor.set,
             descriptor |-> descriptor]

\* the function bindable(property) returns, applied to the class
Bindable(proto, property) ==
  LET mixed == IF ~ActiveBindingsHas(proto, "prototype")
               THEN [proto EXCEPT !.mixin = TRUE] ELSE proto
      descriptor == mixed.descriptors[property]
      defined == DefineProperty(descriptor,
                                IF descriptor.get # "undefined"
                                THEN descriptor.get ELSE "createGetter",
                                descriptor.set + 1)
  IN IF ActiveBindingsHas(mixed, descriptor.get)
     THEN [threw |-> FALSE, prototype |-> mixed]
     ELSE [threw |-> defined.threw,
           prototype |-> [mixed EXCEPT !.descriptors[property] =
                            defined.descriptor]]

\* the class with each property decorated once
RECURSIVE BindAll(_, _)
BindAll(proto, props) ==
  IF props = {} THEN proto
  ELSE LET p == CHOOSE q \in props : TRUE
       IN BindAll(Bindable(proto, p).prototype, props \ {p})

Decorated == BindAll(Declared, Props)

NoBind == [property |-> "none", threw |-> FALSE, before |-> Undeclared]

\* ------------------------------------------------------------ initial state
NoWrite ==
  [source |-> "none", property |-> "none", newValue |-> 0, before |-> 0,
   calls |-> <<>>, suspended |-> FALSE, inFlush |-> FALSE,
   canceled |-> FALSE, threw |-> FALSE,
   changes |-> [oldValue |-> 0, newValue |-> 0], readInCall |-> 0]

NoRegistry ==
  [op |-> "none", source |-> "none", callback |-> "none",
   before |-> CreateStore, pending |-> FALSE, inFlush |-> FALSE]

NoThrow ==
  [source |-> "none", callback |-> "none", queue |-> <<>>,
   changes |-> EmptyMap, pending |-> EmptyMap]

Start(limits) ==
  /\ limit = limits
  /\ propertyValues = [o \in Owners |-> [p \in Props |-> 0]]
  /\ backing = [o \in Owners |-> 0]
  /\ suspendNotifications = [o \in Owners |-> FALSE]
  /\ shareStore = [o \in Owners |-> CreateStore]
  /\ changesByObject = EmptyMap
  /\ queue = <<>>
  /\ nextFrameId = 0
  /\ frames = 0
  /\ flushing = FALSE
  /\ processingQueue = <<>>
  /\ processingChanges = EmptyMap
  /\ notifying = FALSE
  /\ forEachIndex = 0
  /\ forEachLen = 0
  /\ log = <<>>
  /\ notified = <<>>
  /\ lastWrite = NoWrite
  /\ cycle = [o \in Owners |-> EmptyMap]
  /\ processingCycle = [o \in Owners |-> EmptyMap]
  /\ prototype = IF limits.decorated THEN Decorated ELSE Declared
  /\ lastBind = NoBind
  /\ lastRegistry = NoRegistry
  /\ delivered = {}
  /\ lastThrow = NoThrow
  /\ used = [writes |-> 0, registryOps |-> 0, binds |-> 0]

flushVars == <<flushing, processingQueue, processingChanges, notifying,
               forEachIndex, forEachLen, log, notified, processingCycle>>
schedVars == <<changesByObject, queue, nextFrameId, frames>>
valueVars == <<propertyValues, backing, prototype, lastBind>>

\* ------------------------------------------------------------ application code
\* self[property] = newValue, from code that runs outside the frame callback
Write(self, property, newValue, returns) ==
  /\ ~flushing
  /\ SetterCall(self, property, newValue, returns)
  /\ UNCHANGED <<suspendNotifications, flushVars>>

\* self[property] = newValue where the class was decorated with the
\* descriptor variant
DescriptorWrite(self, property, newValue, returns) ==
  /\ ~flushing
  /\ DescriptorSetterCall(self, property, newValue, returns)
  /\ UNCHANGED <<suspendNotifications, flushVars>>

\* a registry method called on self; next is the store it leaves
RegistryCall(op, self, callback, next) ==
  /\ prototype.mixin
  /\ limit.registryBounded => used.registryOps < limit.registryOps
  /\ shareStore' = next
  /\ lastRegistry' = IF limit.history
                     THEN [op |-> op, source |-> self, callback |-> callback,
                           before |-> shareStore[self],
                           pending |-> self \in DOMAIN changesByObject,
                           inFlush |-> flushing]
                     ELSE lastRegistry
  /\ used' = IF limit.registryBounded
             THEN [used EXCEPT !.registryOps = @ + 1] ELSE used
  /\ UNCHANGED limit
  /\ UNCHANGED <<valueVars, suspendNotifications, schedVars, lastWrite, lastThrow, cycle,
                 delivered>>

AddChangeListenerCall(self, callback, priority) ==
  /\ ~flushing
  /\ RegistryCall("addChangeListener", self, callback,
                  AddChangeListener(shareStore, self, callback, priority))
  /\ UNCHANGED flushVars

RemoveChangeListenerCall(self, callback) ==
  /\ ~flushing
  /\ RegistryCall("removeChangeListener", self, callback,
                  RemoveChangeListener(shareStore, self, callback))
  /\ UNCHANGED flushVars

AddPreCommitListenerCall(self, callback, priority) ==
  /\ ~flushing
  /\ RegistryCall("addPreCommitListener", self, callback,
                  AddPreCommitListener(shareStore, self, callback, priority))
  /\ UNCHANGED flushVars

RemovePreCommitListenerCall(self, callback) ==
  /\ ~flushing
  /\ RegistryCall("removePreCommitListener", self, callback,
                  RemovePreCommitListener(shareStore, self, callback))
  /\ UNCHANGED flushVars

\* @bindable(property) applied to the class once more
BindableCall(property) ==
  /\ ~flushing
  /\ used.binds < limit.binds
  /\ LET bound == Bindable(prototype, property)
     IN /\ prototype' = bound.prototype
        /\ lastBind' = [property |-> property, threw |-> bound.threw,
                        before |-> prototype.descriptors[property]]
  /\ used' = [used EXCEPT !.binds = @ + 1]
  /\ UNCHANGED <<propertyValues, backing, suspendNotifications, shareStore,
                 schedVars, flushVars, lastWrite, lastThrow, cycle, lastRegistry, delivered, limit>>

\* self.suspendNotifications = flag (writable data property of the mixin)
SetSuspendNotifications(self, flag) ==
  /\ ~flushing
  /\ suspendNotifications[self] # flag
  /\ suspendNotifications' = [suspendNotifications EXCEPT ![self] = flag]
  /\ UNCHANGED <<valueVars, shareStore, schedVars, flushVars, lastWrite, lastThrow, cycle, lastRegistry, delivered,
                 used, limit>>

\* ------------------------------------------------------------ frame callback
\* mutant: nextFrameId is not nullified when the callback starts
FlushResetKeepsFrameId(s) ==
  [s EXCEPT !.queue = <<>>, !.changesByObject = EmptyMap, !.frames = @ - 1]

\* mutant: the pending changes stay in place when the snapshot is taken
FlushResetKeepsChanges(s) ==
  [s EXCEPT !.queue = <<>>, !.nextFrameId = 0, !.frames = @ - 1]

\* the snapshot and reset at the start of the requestAnimationFrame callback
FlushReset(s) ==
  [s EXCEPT !.queue = <<>>, !.changesByObject = EmptyMap, !.nextFrameId = 0,
            !.frames = @ - 1]

FrameCallback ==
  /\ ~flushing
  /\ frames > 0
  /\ processingQueue' = queue
  /\ processingChanges' = changesByObject
  /\ LET s == FlushReset(Sched)
     IN /\ queue' = s.queue
        /\ changesByObject' = s.changesByObject
        /\ nextFrameId' = s.nextFrameId
        /\ frames' = s.frames
  /\ flushing' = TRUE
  /\ log' = <<>>
  /\ notified' = <<>>
  /\ processingCycle' = cycle
  /\ cycle' = [o \in Owners |-> EmptyMap]
  /\ UNCHANGED <<valueVars, suspendNotifications, shareStore, notifying,
                 forEachIndex, forEachLen, lastWrite, lastThrow, lastRegistry,
                 delivered, used, limit>>

\* notify(source, changes) up to the start of queue.forEach
NotifyQueue(store, source) ==
  LET array == GetPriorityQueue(store, source, "priorityQueue")
  IN IF Len(array) = 0
     THEN BuildPriorityQueue(GetChangeListeners(store, source), array)
     ELSE array

Notify ==
  /\ flushing /\ ~notifying
  /\ processingQueue # <<>>
  /\ LET source == Head(processingQueue)
         array == NotifyQueue(shareStore, source)
     IN /\ shareStore' = [shareStore EXCEPT ![source].priorityQueue = array]
        /\ forEachLen' = Len(array)
        /\ notified' = Append(notified,
                              [source |-> source,
                               changes |-> processingChanges[source],
                               listeners |-> GetChangeListeners(shareStore, source)])
  /\ forEachIndex' = 1
  /\ notifying' = TRUE
  /\ UNCHANGED <<valueVars, suspendNotifications, schedVars, flushing,
                 processingQueue, processingChanges, log, lastWrite, lastThrow, cycle, lastRegistry, delivered,
                 processingCycle, used, limit>>

\* forEach calls its function for index k < len when the array still has k
ForEachHasNext ==
  /\ notifying
  /\ forEachIndex <= forEachLen
  /\ forEachIndex <= Len(shareStore[Head(processingQueue)].priorityQueue)

\* mutant: a callback that returns false ends the iteration
ForEachNextUnlessFalse(index, len, returned) ==
  IF returned = "false" THEN len + 1 ELSE index + 1

\* Array.prototype.forEach discards what its function returns and goes on to
\* the next index
ForEachNext(index, len, returned) == index + 1

\* entry.callback(source, changes, entry.priority), the callback returning
\* the given value
CallbackInvokedReturning(returned) ==
  /\ flushing
  /\ ForEachHasNext
  /\ LET source == Head(processingQueue)
         entry == shareStore[source].priorityQueue[forEachIndex]
     IN log' = Append(log, [callback |-> entry.callback, source |-> source,
                            changes |-> processingChanges[source],
                            priority |-> entry.priority,
                            returned |-> returned])
  /\ forEachIndex' = ForEachNext(forEachIndex, forEachLen, returned)
  /\ UNCHANGED <<flushing, processingQueue, processingChanges, notifying,
                 forEachLen, notified, processingCycle>>

\* a callback that ends without a return statement
CallbackInvoked == CallbackInvokedReturning("undefined")

\* a change listener that only reads its arguments
ListenerReturns ==
  /\ CallbackInvoked
  /\ UNCHANGED <<valueVars, suspendNotifications, shareStore, schedVars,
                 lastWrite, lastThrow, cycle, lastRegistry, delivered, used, limit>>

\* a change listener that only reads its arguments and returns a value
ListenerReturnsValue(returned) ==
  /\ CallbackInvokedReturning(returned)
  /\ UNCHANGED <<valueVars, suspendNotifications, shareStore, schedVars,
                 lastWrite, lastThrow, cycle, lastRegistry, delivered, used, limit>>

\* a change listener that assigns a bound property
ListenerWrites(self, property, newValue, returns) ==
  /\ CallbackInvoked
  /\ SetterCall(self, property, newValue, returns)
  /\ UNCHANGED suspendNotifications

\* a change listener that registers a change listener
ListenerAdds(self, callback, priority) ==
  /\ CallbackInvoked
  /\ RegistryCall("addChangeListener", self, callback,
                  AddChangeListener(shareStore, self, callback, priority))

\* a change listener that removes a change listener
ListenerRemoves(self, callback) ==
  /\ CallbackInvoked
  /\ RegistryCall("removeChangeListener", self, callback,
                  RemoveChangeListener(shareStore, self, callback))

\* mutant: the exception is caught around notify and the Set's forEach goes
\* on with the owners after the one whose listener threw
UnwindOwner(sources) == Tail(sources)

\* an exception leaves Array.forEach, notify, the Set's forEach and the frame
\* callback: none of the sources still in the snapshot is visited
Unwind(sources) == <<>>

\* a change listener that throws
ListenerThrows ==
  /\ flushing
  /\ ForEachHasNext
  /\ LET source == Head(processingQueue)
         entry == shareStore[source].priorityQueue[forEachIndex]
     IN lastThrow' = [source |-> source, callback |-> entry.callback,
                      queue |-> processingQueue,
                      changes |-> processingChanges,
                      pending |-> changesByObject]
  /\ processingQueue' = Unwind(processingQueue)
  /\ flushing' = (processingQueue' # <<>>)
  /\ processingChanges' = IF flushing' THEN processingChanges ELSE EmptyMap
  /\ processingCycle' = IF flushing' THEN processingCycle
                        ELSE [o \in Owners |-> EmptyMap]
  /\ notifying' = FALSE
  /\ forEachIndex' = 0
  /\ forEachLen' = 0
  /\ log' = IF flushing' THEN log ELSE <<>>
  /\ notified' = IF flushing' THEN notified ELSE <<>>
  /\ delivered' = IF limit.history
                  THEN delivered \cup
                       UNION {{<<notified[k].source, p>> :
                                 p \in DOMAIN notified[k].changes} :
                              k \in 1..Len(notified)}
                  ELSE delivered
  /\ UNCHANGED <<valueVars, suspendNotifications, shareStore, schedVars,
                 lastWrite, cycle, lastRegistry, used, limit>>

\* forEach has no further element: notify returns, the Set's forEach moves on
NotifyReturns ==
  /\ flushing /\ notifying
  /\ ~ForEachHasNext
  /\ notifying' = FALSE
  /\ processingQueue' = Tail(processingQueue)
  /\ forEachIndex' = 0
  /\ forEachLen' = 0
  /\ UNCHANGED <<valueVars, suspendNotifications, shareStore, schedVars,
                 flushing, processingChanges, log, notified, lastWrite, lastThrow, cycle, lastRegistry, delivered,
                 processingCycle, used, limit>>

\* mutant: the number of sources in the Set, as queue.size would give
QueueSize(set) == Len(set)

\* queue is a Set: queue.length is undefined, which is falsy
QueueLength(set) == 0

\* the callback's last statement: if (queue.length) processQueue()
FrameCallbackReturns ==
  /\ flushing /\ ~notifying
  /\ processingQueue = <<>>
  /\ LET s == IF QueueLength(queue) # 0 THEN ProcessQueue(Sched) ELSE Sched
     IN /\ nextFrameId' = s.nextFrameId
        /\ frames' = s.frames
  /\ flushing' = FALSE
  /\ processingChanges' = EmptyMap
  /\ log' = <<>>
  /\ notified' = <<>>
  /\ processingCycle' = [o \in Owners |-> EmptyMap]
  /\ delivered' = IF limit.history
                  THEN delivered \cup
                       UNION {{<<notified[k].source, p>> :
                                 p \in DOMAIN notified[k].changes} :
                              k \in 1..Len(notified)}
                  ELSE delivered
  /\ UNCHANGED <<valueVars, suspendNotifications, shareStore, changesByObject,
                 queue, processingQueue, notifying, forEachIndex, forEachLen,
                 lastWrite, lastThrow, cycle, lastRegistry, used, limit>>

\* ------------------------------------------------------------ specifications
\* the steps of the program, their inputs drawn from the given sets
WriteStep(owners, props, values, rets) ==
  \E o \in owners, p \in props, v \in values :
    \E r \in [1..PreCommitCalls(o, p, v) -> rets] : Write(o, p, v, r)

\* a write during which the k-th pre-commit listener called throws
ThrowingWriteStep(owners, props, values, rets) ==
  \E o \in owners, p \in props, v \in values :
    \E k \in 1..PreCommitCalls(o, p, v) :
      \E r \in [1..(k - 1) -> rets] : Write(o, p, v, Append(r, "throw"))

DescriptorWriteStep(owners, props, values, rets) ==
  \E o \in owners, p \in props, v \in values :
    \E r \in [1..DescriptorPreCommitCalls(o, p, v) -> rets] :
      DescriptorWrite(o, p, v, r)

CommitRegistryStep(owners, callbacks, priorities) ==
  \/ \E o \in owners, c \in callbacks, n \in priorities :
       AddChangeListenerCall(o, c, n)
  \/ \E o \in owners, c \in callbacks : RemoveChangeListenerCall(o, c)

PreCommitRegistryStep(owners, callbacks, priorities) ==
  \/ \E o \in owners, c \in callbacks, n \in priorities :
       AddPreCommitListenerCall(o, c, n)
  \/ \E o \in owners, c \in callbacks : RemovePreCommitListenerCall(o, c)

SuspendStep(owners) ==
  \E o \in owners, f \in BOOLEAN : SetSuspendNotifications(o, f)

FlushStep ==
  \/ FrameCallback
  \/ Notify
  \/ ListenerReturns
  \/ NotifyReturns
  \/ FrameCallbackReturns

\* the frame callback with listeners that return any of the given values
FlushStepReturning(rets) ==
  \/ FrameCallback
  \/ Notify
  \/ \E r \in rets : ListenerReturnsValue(r)
  \/ NotifyReturns
  \/ FrameCallbackReturns

ReentrantWriteStep(owners, props, values, rets) ==
  \E o \in owners, p \in props, v \in values :
    \E r \in [1..PreCommitCalls(o, p, v) -> rets] : ListenerWrites(o, p, v, r)

ReentrantRegistryStep(owners, callbacks, priorities) ==
  \/ \E o \in owners, c \in callbacks, n \in priorities : ListenerAdds(o, c, n)
  \/ \E o \in owners, c \in callbacks : ListenerRemoves(o, c)

BindStep(props) == \E p \in props : BindableCall(p)

\* Spec: one owner, every kind of step, listeners added with the default
\* priority
Init ==
  Start([writes |-> MaxWrites, registryBounded |-> FALSE, registryOps |-> 0,
         binds |-> 0, decorated |-> TRUE, history |-> FALSE])
Next ==
  \/ WriteStep({"X"}, Props, Values, RetVals)
  \/ CommitRegistryStep({"X"}, {"L1", "L2"}, {0})
  \/ PreCommitRegistryStep({"X"}, {"P1"}, {0})
  \/ SuspendStep({"X"})
  \/ FlushStep
  \/ ReentrantWriteStep({"X"}, Props, Values, RetVals)
  \/ ReentrantRegistryStep({"X"}, {"L1", "L2"}, {0})
Spec == Init /\ [][Next]_vars

\* SpecPriority: one owner, three listeners of each kind with two priorities,
\* a bounded number of registry calls, one write of one value
InitPriority ==
  Start([writes |-> MaxWritesPriority, registryBounded |-> TRUE,
         registryOps |-> MaxRegistryOpsPriority,
         binds |-> 0, decorated |-> TRUE, history |-> FALSE])
NextPriority ==
  \/ WriteStep({"X"}, {"a"}, {1}, {"undefined"})
  \/ CommitRegistryStep({"X"}, CommitCallbacks, Priorities)
  \/ PreCommitRegistryStep({"X"}, PreCommitCallbacks, Priorities)
  \/ FlushStep
SpecPriority == InitPriority /\ [][NextPriority]_vars

\* SpecOwners: two owners, one commit listener each, writes and registry calls
\* from application code and from listeners
InitOwners ==
  Start([writes |-> MaxWritesOwners, registryBounded |-> FALSE,
         registryOps |-> 0,
         binds |-> 0, decorated |-> TRUE, history |-> FALSE])
NextOwners ==
  \/ WriteStep(Owners, {"a", "b"}, {1, 2}, {"undefined"})
  \/ CommitRegistryStep(Owners, {"L1"}, {0})
  \/ FlushStep
  \/ ReentrantWriteStep(Owners, {"a", "b"}, {1, 2}, {"undefined"})
  \/ ReentrantRegistryStep(Owners, {"L1"}, {0})
SpecOwners == InitOwners /\ [][NextOwners]_vars

\* SpecPreCommit: one owner, up to three pre-commit listeners that return any
\* value, one commit listener, the suspend flag, a plain and an accessor
\* property
InitPreCommit ==
  Start([writes |-> MaxWritesPreCommit, registryBounded |-> TRUE,
         registryOps |-> MaxRegistryOpsPreCommit,
         binds |-> 0, decorated |-> TRUE, history |-> FALSE])
NextPreCommit ==
  \/ WriteStep({"X"}, {"a", "age"}, {1, 2}, RetVals)
  \/ CommitRegistryStep({"X"}, {"L1"}, {0})
  \/ PreCommitRegistryStep({"X"}, PreCommitCallbacks, {0})
  \/ SuspendStep({"X"})
  \/ FlushStep
SpecPreCommit == InitPreCommit /\ [][NextPreCommit]_vars

\* SpecReturn: one owner, two commit listeners that return any value
InitReturn ==
  Start([writes |-> MaxWritesReturn, registryBounded |-> FALSE,
         registryOps |-> 0,
         binds |-> 0, decorated |-> TRUE, history |-> FALSE])
NextReturn ==
  \/ WriteStep({"X"}, {"a", "age"}, {1, 2}, {"undefined"})
  \/ CommitRegistryStep({"X"}, {"L1", "L2"}, {0})
  \/ FlushStepReturning(RetVals)
SpecReturn == InitReturn /\ [][NextReturn]_vars

\* SpecRegistry: one owner, two listeners of each kind added with two
\* priorities, removed and added again, from application code and from
\* listeners; a bounded number of registry calls, one write of one value
InitRegistry ==
  Start([writes |-> MaxWritesRegistry, registryBounded |-> TRUE,
         registryOps |-> MaxRegistryOpsRegistry,
         binds |-> 0, decorated |-> TRUE, history |-> FALSE])
NextRegistry ==
  \/ WriteStep({"X"}, {"a"}, {1}, {"undefined"})
  \/ CommitRegistryStep({"X"}, {"L1", "L2"}, Priorities)
  \/ PreCommitRegistryStep({"X"}, {"P1", "P2"}, Priorities)
  \/ FlushStep
  \/ ReentrantRegistryStep({"X"}, {"L1", "L2"}, Priorities)
SpecRegistry == InitRegistry /\ [][NextRegistry]_vars

\* SpecBind: the class as written, decorated step by step, possibly more than
\* once for the same property; writes go to properties decorated once
InitBind ==
  Start([writes |-> MaxWritesBind, registryBounded |-> TRUE,
         registryOps |-> MaxRegistryOpsBind,
         binds |-> MaxBinds, decorated |-> FALSE, history |-> FALSE])
NextBind ==
  \/ BindStep(Props)
  \/ WriteStep({"X"}, Props, {1, 2}, {"false", "undefined"})
  \/ CommitRegistryStep({"X"}, {"L1"}, {0})
  \/ PreCommitRegistryStep({"X"}, {"P1"}, {0})
  \/ FlushStep
SpecBind == InitBind /\ [][NextBind]_vars

\* SpecThrow: pre-commit listeners that return or throw, on a plain and on
\* an accessor property
InitThrow ==
  Start([writes |-> MaxWritesThrow, registryBounded |-> TRUE,
         registryOps |-> MaxRegistryOpsThrow,
         binds |-> 0, decorated |-> TRUE, history |-> FALSE])
NextThrow ==
  \/ WriteStep({"X"}, {"a", "age"}, {1, 2}, {"false", "undefined"})
  \/ ThrowingWriteStep({"X"}, {"a", "age"}, {1, 2}, {"false", "undefined"})
  \/ CommitRegistryStep({"X"}, {"L1"}, {0})
  \/ PreCommitRegistryStep({"X"}, {"P1", "P2"}, {0})
  \/ FlushStep
SpecThrow == InitThrow /\ [][NextThrow]_vars

\* SpecIsolation: two instances of the class, each with listeners of its own
\* or with the same callbacks as the other
InitIsolation ==
  Start([writes |-> MaxWritesIsolation, registryBounded |-> TRUE,
         registryOps |-> MaxRegistryOpsIsolation,
         binds |-> 0, decorated |-> TRUE, history |-> TRUE])
NextIsolation ==
  \/ WriteStep(Owners, {"a"}, {1}, {"undefined"})
  \/ CommitRegistryStep(Owners, {"L1", "L2"}, {0})
  \/ PreCommitRegistryStep(Owners, {"P1"}, {0})
  \/ FlushStep
  \/ ReentrantRegistryStep(Owners, {"L1", "L2"}, {0})
SpecIsolation == InitIsolation /\ [][NextIsolation]_vars

\* SpecDelivery: one owner written between and during several flushes; what
\* each flush was given is recorded
InitDelivery ==
  Start([writes |-> MaxWritesDelivery, registryBounded |-> TRUE,
         registryOps |-> MaxRegistryOpsDelivery,
         binds |-> 0, decorated |-> TRUE, history |-> TRUE])
NextDelivery ==
  \/ WriteStep({"X"}, {"a", "b"}, {1, 2}, {"undefined"})
  \/ CommitRegistryStep({"X"}, {"L1"}, {0})
  \/ FlushStep
  \/ ReentrantWriteStep({"X"}, {"a", "b"}, {1, 2}, {"undefined"})
SpecDelivery == InitDelivery /\ [][NextDelivery]_vars

\* a flush in which some listener throws
ThrowStep == ListenerThrows

\* SpecCommitThrow: two owners with change listeners that return, write or
\* throw
InitCommitThrow ==
  Start([writes |-> MaxWritesCommitThrow, registryBounded |-> TRUE,
         registryOps |-> MaxRegistryOpsCommitThrow,
         binds |-> 0, decorated |-> TRUE, history |-> TRUE])
NextCommitThrow ==
  \/ WriteStep(Owners, {"a"}, {1, 2}, {"undefined"})
  \/ CommitRegistryStep(Owners, {"L1"}, {0})
  \/ FlushStep
  \/ ThrowStep
  \/ ReentrantWriteStep(Owners, {"a"}, {1, 2}, {"undefined"})
SpecCommitThrow == InitCommitThrow /\ [][NextCommitThrow]_vars

\* SpecDescriptor: one owner of a class decorated with the descriptor variant,
\* a plain and an accessor property, pre-commit listeners that return false
\* or nothing
InitDescriptor ==
  Start([writes |-> MaxWritesDescriptor, registryBounded |-> TRUE,
         registryOps |-> MaxRegistryOpsDescriptor,
         binds |-> 0, decorated |-> TRUE, history |-> FALSE])
NextDescriptor ==
  \/ DescriptorWriteStep({"X"}, {"a", "age"}, {1, 2}, {"false", "undefined"})
  \/ CommitRegistryStep({"X"}, {"L1"}, {0})
  \/ PreCommitRegistryStep({"X"}, {"P1", "P2"}, {0})
  \/ FlushStep
SpecDescriptor == InitDescriptor /\ [][NextDescriptor]_vars

\* SpecKinds: one owner and two functions, each of which may be registered as
\* a change listener, as a pre-commit listener, or as both
InitKinds ==
  Start([writes |-> MaxWritesKinds, registryBounded |-> TRUE,
         registryOps |-> MaxRegistryOpsKinds,
         binds |-> 0, decorated |-> TRUE, history |-> TRUE])
NextKinds ==
  \/ WriteStep({"X"}, {"a"}, {1, 2}, {"undefined"})
  \/ CommitRegistryStep({"X"}, {"L1", "P1"}, {0})
  \/ PreCommitRegistryStep({"X"}, {"L1", "P1"}, {0})
  \/ FlushStep
SpecKinds == InitKinds /\ [][NextKinds]_vars

\* SpecHistory: one owner with two plain properties, listeners of both kinds
\* added and removed between and during flushes; the latest registry call and
\* the changes given to earlier flushes are recorded
InitHistory ==
  Start([writes |-> MaxWritesHistory, registryBounded |-> TRUE,
         registryOps |-> MaxRegistryOpsHistory,
         binds |-> 0, decorated |-> TRUE, history |-> TRUE])
NextHistory ==
  \/ WriteStep({"X"}, {"a", "b"}, {1}, {"undefined"})
  \/ CommitRegistryStep({"X"}, {"L1", "L2"}, Priorities)
  \/ PreCommitRegistryStep({"X"}, {"P1", "P2"}, Priorities)
  \/ FlushStep
  \/ ReentrantRegistryStep({"X"}, {"L1", "L2"}, Priorities)
SpecHistory == InitHistory /\ [][NextHistory]_vars

\* ------------------------------------------------------------ properties
\* the step is a setter call (from application code or from a listener)
IsWrite == used'.writes # used.writes
\* the value read from the property after the step
ReadNext(self, property) ==
  IF HasGet(property) THEN backing'[self] ELSE propertyValues'[self][property]
\* some pre-commit listener of the recorded write returned exactly false
WasVetoed(w) == \E i \in 1..Len(w.calls) : w.calls[i].returned = "false"
\* the recorded write was accepted and passed to the scheduler
WasNotifiable ==
  Notifiable(lastWrite'.source, lastWrite'.property, lastWrite'.newValue,
             [i \in 1..Len(lastWrite'.calls) |-> lastWrite'.calls[i].returned])

\* C1 (as claimed): a write during which a pre-commit listener returns false
\* leaves the value read from the property as it was before the write and
\* produces no pending or delivered changes entry.
C1_VetoKeepsValue ==
  [][(IsWrite /\ WasVetoed(lastWrite')) =>
       /\ ReadNext(lastWrite'.source, lastWrite'.property) = lastWrite'.before
       /\ changesByObject' = changesByObject
       /\ processingChanges' = processingChanges]_vars

\* the changes map has exactly the properties notified in the flushed cycle
CompleteMap(n) == DOMAIN n.changes = DOMAIN processingCycle[n.source]
\* the listeners that were registered when notify started and still are
StillRegistered(n) ==
  {n.listeners[i].callback : i \in 1..Len(n.listeners)} \cap
  {shareStore[n.source].changeListeners[i].callback :
     i \in 1..Len(shareStore[n.source].changeListeners)}
\* the calls of the flush in progress made to a callback of a source
CallsTo(source, callback) ==
  {i \in 1..Len(log) : log[i].source = source /\ log[i].callback = callback}

\* C2 (as claimed): when the dispatch to an owner ends, each commit listener
\* registered on that owner has been called exactly once in this flush, with
\* the one changes map that holds every property notified in the cycle.
C2_EachListenerOnce ==
  (flushing /\ notifying /\ ~ForEachHasNext) =>
    LET n == notified[Len(notified)]
    IN /\ CompleteMap(n)
       /\ \A c \in StillRegistered(n) :
            /\ Cardinality(CallsTo(n.source, c)) = 1
            /\ \A i \in CallsTo(n.source, c) : log[i].changes = n.changes

\* C4: writing to a property the value it currently holds calls no pre-commit
\* listener, calls no commit listener, enqueues nothing and arms no flush.
C4_NoopWrite ==
  [][(IsWrite /\ lastWrite'.newValue = lastWrite'.before) =>
       /\ lastWrite'.calls = <<>>
       /\ UNCHANGED <<changesByObject, queue, nextFrameId, frames, cycle>>
       /\ UNCHANGED <<processingChanges, processingQueue>>
       /\ ~flushing => log' = log
       /\ flushing => Len(log') = Len(log) + 1]_vars

C4_Witness ==
  /\ lastWrite.source \in Owners
  /\ lastWrite.newValue = lastWrite.before
  /\ lastWrite.newValue # 0
  /\ ~suspendNotifications[lastWrite.source]
  /\ shareStore[lastWrite.source].changeListeners # <<>>
  /\ shareStore[lastWrite.source].preCommitListeners # <<>>

\* what reading the property yields once the setter has stored newValue
StoredAs(property, newValue) ==
  IF HasSet(property) /\ HasGet(property) THEN Cast(newValue) ELSE newValue

\* C3 (as claimed, for the properties without a pre-existing accessor): every
\* entry delivered to a commit listener has oldValue equal to the value the
\* property had before the first notified write of the cycle and newValue
\* equal to the value of the last one.
C3_FirstOldLastNew ==
  \A i \in 1..Len(log) :
    \A p \in DOMAIN log[i].changes :
      ~HasSet(p) =>
        /\ p \in DOMAIN processingCycle[log[i].source]
        /\ log[i].changes[p].oldValue = processingCycle[log[i].source][p].first
        /\ log[i].changes[p].newValue = processingCycle[log[i].source][p].last

\* C3 (amended): every entry delivered to a commit listener has newValue equal
\* to the value of the last notified write of the cycle and oldValue equal to
\* the value the setter held just before that last write (for a property with
\* a pre-existing accessor pair: what its getter returned after its setter ran).
C3_LastOldLastNew ==
  \A i \in 1..Len(log) :
    \A p \in DOMAIN log[i].changes :
      /\ p \in DOMAIN processingCycle[log[i].source]
      /\ log[i].changes[p].newValue = processingCycle[log[i].source][p].last
      /\ log[i].changes[p].oldValue =
           IF HasSet(p) /\ HasGet(p)
           THEN Cast(processingCycle[log[i].source][p].last)
           ELSE processingCycle[log[i].source][p].lastOld

C3_Witness ==
  \E i \in 1..Len(log) :
    \E p \in DOMAIN log[i].changes \cap DOMAIN processingCycle[log[i].source] :
      /\ ~HasSet(p)
      /\ processingCycle[log[i].source][p].first #
           processingCycle[log[i].source][p].lastOld
      /\ log[i].changes[p].oldValue = processingCycle[log[i].source][p].lastOld

\* C5: a commit listener is called only by a step of the frame callback, with
\* the changes of the snapshot; a setter call made outside the frame callback
\* calls none and leaves the callback it requested with the scheduler; the
\* frame callback starts only when no other code is running.
C5_Deferred ==
  [][/\ Len(log') > Len(log) =>
          /\ flushing /\ flushing'
          /\ Len(log') = Len(log) + 1
          /\ SubSeq(log', 1, Len(log)) = log
          /\ log'[Len(log')].changes = processingChanges[log'[Len(log')].source]
     /\ (IsWrite /\ ~flushing) =>
          /\ ~flushing' /\ log' = log
          /\ (nextFrameId = 0 /\ nextFrameId' # 0) => frames' = frames + 1
          /\ frames' >= frames
     /\ frames' < frames => (~flushing /\ flushing' /\ log' = <<>>)]_vars

C5_Witness ==
  /\ flushing
  /\ Len(log) > 0
  /\ lastWrite.source \in Owners
  /\ ~lastWrite.inFlush
  /\ lastWrite.property \in DOMAIN log[1].changes

\* C6 (as claimed): after a write that no pre-commit listener vetoed, reading
\* the property yields the value that was written.
C6_ReadsNewValue ==
  [][(IsWrite /\ ~WasVetoed(lastWrite')) =>
       ReadNext(lastWrite'.source, lastWrite'.property) = lastWrite'.newValue]_vars

\* C6 (amended): after a write that no pre-commit listener vetoed, reading the
\* property yields the value that was written or, for a property with a
\* pre-existing setter, the value that setter stored for it.
C6_ReadsStoredValue ==
  [][(IsWrite /\ ~WasVetoed(lastWrite')) =>
       ReadNext(lastWrite'.source, lastWrite'.property) =
         StoredAs(lastWrite'.property, lastWrite'.newValue)]_vars

C6_Witness ==
  /\ lastWrite.source \in Owners
  /\ lastWrite.calls # <<>>
  /\ ~WasVetoed(lastWrite)
  /\ lastWrite.newValue # lastWrite.before
  /\ frames > 0 /\ ~flushing
  /\ lastWrite.property \in DOMAIN changesByObject[lastWrite.source]
  /\ Read(lastWrite.source, lastWrite.property) = lastWrite.newValue

\* C9: an accepted, value-changing write made by a commit listener during a
\* flush, to an owner that has a commit listener and is not suspended, leaves
\* a frame callback requested and the change pending for it, and leaves the
\* snapshot being delivered as it was.
C9_ReentrantWrite ==
  [][(IsWrite /\ flushing /\ WasNotifiable) =>
       /\ nextFrameId' # 0 /\ frames' >= 1
       /\ lastWrite'.source \in DOMAIN changesByObject'
       /\ lastWrite'.property \in DOMAIN changesByObject'[lastWrite'.source]
       /\ changesByObject'[lastWrite'.source][lastWrite'.property].newValue
            = lastWrite'.newValue
       /\ \E i \in 1..Len(queue') : queue'[i] = lastWrite'.source
       /\ processingChanges' = processingChanges
       /\ processingQueue' = processingQueue
       /\ \A i \in 1..Len(log') :
            log'[i].changes = processingChanges[log'[i].source]]_vars

C9_Witness ==
  /\ flushing
  /\ lastWrite.inFlush
  /\ lastWrite.source \in DOMAIN changesByObject
  /\ lastWrite.source \in DOMAIN processingChanges
  /\ lastWrite.property \in DOMAIN changesByObject[lastWrite.source]
  /\ lastWrite.property \in DOMAIN processingChanges[lastWrite.source]
  /\ frames = 1

\* C10: a write made while the owner's suspendNotifications is true enqueues
\* nothing and requests no frame, and unless vetoed it still updates the value
\* read; nothing is delivered that was not written while the flag was false;
\* an accepted write made while the flag is false is enqueued.
C10_Suspend ==
  [][/\ (IsWrite /\ suspendNotifications[lastWrite'.source]) =>
          /\ UNCHANGED <<changesByObject, queue, nextFrameId, frames>>
          /\ ~WasVetoed(lastWrite') =>
               ReadNext(lastWrite'.source, lastWrite'.property) =
                 StoredAs(lastWrite'.property, lastWrite'.newValue)
     /\ (IsWrite /\ WasNotifiable) =>
          /\ lastWrite'.source \in DOMAIN changesByObject'
          /\ lastWrite'.property \in DOMAIN changesByObject'[lastWrite'.source]
          /\ frames' >= 1
     /\ \A i \in 1..Len(log) :
          DOMAIN log[i].changes \subseteq DOMAIN processingCycle[log[i].source]]_vars

C10_Witness ==
  /\ lastWrite.source \in Owners
  /\ lastWrite.suspended
  /\ lastWrite.newValue # lastWrite.before
  /\ ~WasVetoed(lastWrite)
  /\ shareStore[lastWrite.source].changeListeners # <<>>
  /\ Read(lastWrite.source, lastWrite.property) = lastWrite.newValue
  /\ changesByObject = EmptyMap /\ frames = 0 /\ ~flushing

\* position of a callback in a Map's insertion order
PositionIn(map, callback) ==
  CHOOSE i \in 1..Len(map) : map[i].callback = callback
\* calls are made to registered listeners with their registered priority, in
\* ascending priority, equal priorities in the Map's insertion order
InPriorityOrder(calls, listeners) ==
  /\ \A i \in 1..Len(calls) :
       /\ MapHas(listeners, calls[i].callback)
       /\ listeners[PositionIn(listeners, calls[i].callback)].priority
            = calls[i].priority
  /\ \A i, j \in 1..Len(calls) :
       i < j =>
         \/ calls[i].priority < calls[j].priority
         \/ /\ calls[i].priority = calls[j].priority
            /\ PositionIn(listeners, calls[i].callback)
                 < PositionIn(listeners, calls[j].callback)
\* the calls of the flush in progress made to the listeners of a source
DispatchCalls(source) == SelectSeq(log, LAMBDA e : e.source = source)
Callbacks(calls) == [i \in 1..Len(calls) |-> calls[i].callback]

\* C7: the calls of a commit dispatch, and the calls of the pre-commit
\* dispatch of a setter call, go to the owner's listeners in ascending
\* priority, listeners of equal priority in the order they were added; a
\* dispatch that no listener disturbs calls every listener.
C7_PriorityOrder ==
  /\ [](\A k \in 1..Len(notified) :
          /\ InPriorityOrder(DispatchCalls(notified[k].source),
                             notified[k].listeners)
          /\ (k < Len(notified) \/ ~notifying \/ ~ForEachHasNext) =>
               (Len(shareStore[notified[k].source].priorityQueue)
                  = Len(notified[k].listeners) =>
                Len(DispatchCalls(notified[k].source))
                  = Len(notified[k].listeners)))
  /\ [][IsWrite =>
         LET listeners == shareStore[lastWrite'.source].preCommitListeners
         IN /\ InPriorityOrder(lastWrite'.calls, listeners)
            /\ ~SetterNoop(lastWrite'.source, lastWrite'.property,
                           lastWrite'.newValue) =>
                 Len(lastWrite'.calls) = Len(listeners)]_vars

C7_Witness ==
  /\ flushing
  /\ Len(notified) = 1
  /\ notified[1].listeners = <<[callback |-> "L1", priority |-> 5],
                               [callback |-> "L3", priority |-> 5],
                               [callback |-> "L2", priority |-> 1]>>
  /\ Callbacks(DispatchCalls(notified[1].source)) = <<"L2", "L1", "L3">>
  /\ shareStore[lastWrite.source].preCommitListeners
       = <<[callback |-> "P1", priority |-> 5],
           [callback |-> "P3", priority |-> 5],
           [callback |-> "P2", priority |-> 1]>>
  /\ Callbacks(lastWrite.calls) = <<"P2", "P1", "P3">>

\* the records of the flush in progress of the dispatches to an owner
DispatchesTo(source) ==
  {k \in 1..Len(notified) : notified[k].source = source}

\* C8: when the frame callback has dispatched its snapshot, every owner with a
\* notified write in the flushed cycle has had exactly one dispatch and no
\* other owner has had any; the changes map of that dispatch holds exactly the
\* properties notified on that owner, each with the value last written to it
\* on that owner; no listener was called twice for one owner, and every call
\* carried the map of its owner.
C8_OneDispatchPerOwner ==
  (flushing /\ ~notifying /\ processingQueue = <<>>) =>
    \A o \in Owners :
      /\ Cardinality(DispatchesTo(o)) =
           IF processingCycle[o] = EmptyMap THEN 0 ELSE 1
      /\ \A k \in DispatchesTo(o) :
           /\ DOMAIN notified[k].changes = DOMAIN processingCycle[o]
           /\ \A p \in DOMAIN notified[k].changes :
                notified[k].changes[p].newValue = processingCycle[o][p].last
           /\ \A i \in 1..Len(log) :
                log[i].source = o =>
                  /\ log[i].changes = notified[k].changes
                  /\ Cardinality(CallsTo(o, log[i].callback)) = 1

C8_Witness ==
  /\ flushing /\ ~notifying /\ processingQueue = <<>>
  /\ Len(notified) = 2
  /\ \A o \in Owners : CallsTo(o, "L1") # {}
  /\ \E p \in DOMAIN processingCycle["X"] \cap DOMAIN processingCycle["Y"] :
       processingCycle["X"][p].last # processingCycle["Y"][p].last
  /\ DOMAIN processingCycle["X"] # DOMAIN processingCycle["Y"]

\* C11 (as claimed): a commit listener of an owner is called only while that
\* owner's suspendNotifications is false, whatever writes were made before the
\* flag was set.
C11_NoCallWhileSuspended ==
  [][Len(log') > Len(log) =>
       ~suspendNotifications[log'[Len(log')].source]]_vars

\* C18 (as claimed): a write to a property with a pre-existing accessor pair
\* whose setter stores the value given, of a value other than the one read
\* before it, on an owner that is not suspended and has a change listener and
\* with no veto, leaves the property pending for the next flush.
C18_AccessorWriteIsQueued ==
  [][(/\ IsWrite
      /\ HasSet(lastWrite'.property) /\ HasGet(lastWrite'.property)
      /\ Cast(lastWrite'.newValue) = lastWrite'.newValue
      /\ lastWrite'.newValue # lastWrite'.before
      /\ ~lastWrite'.suspended
      /\ shareStore[lastWrite'.source].changeListeners # <<>>
      /\ ~WasVetoed(lastWrite')) =>
       /\ lastWrite'.source \in DOMAIN changesByObject'
       /\ lastWrite'.property \in DOMAIN changesByObject'[lastWrite'.source]
       /\ frames' >= 1]_vars

\* the pre-commit listeners registered on an owner, in calling order
PreCommitOrder(self) ==
  Callbacks(BuildPriorityQueue(shareStore[self].preCommitListeners, <<>>))

\* C12 (as claimed): a write made while the owner's suspendNotifications is
\* true, which the setter does not take for a no-op, calls every pre-commit
\* listener of the owner, and if one of them returns false the value read
\* from the property is the one read before the write and nothing is enqueued.
C12_SuspendedPreCommit ==
  [][(/\ IsWrite
      /\ lastWrite'.suspended
      /\ ~SetterNoop(lastWrite'.source, lastWrite'.property,
                     lastWrite'.newValue)) =>
       /\ Callbacks(lastWrite'.calls) = PreCommitOrder(lastWrite'.source)
       /\ WasVetoed(lastWrite') =>
            /\ ReadNext(lastWrite'.source, lastWrite'.property)
                 = lastWrite'.before
            /\ UNCHANGED <<changesByObject, queue, nextFrameId, frames>>]_vars

\* C16: a pre-commit dispatch calls every pre-commit listener of the owner, in
\* order, whatever the earlier ones returned; its result is canceled exactly
\* when some listener returned false, whatever the later ones returned; a
\* canceled setter call stores and enqueues nothing, any other one stores
\* the new value.
C16_StickyCancel ==
  [][(/\ IsWrite
      /\ ~SetterNoop(lastWrite'.source, lastWrite'.property,
                     lastWrite'.newValue)) =>
       /\ Callbacks(lastWrite'.calls) = PreCommitOrder(lastWrite'.source)
       /\ lastWrite'.canceled <=>
            (\E i \in 1..Len(lastWrite'.calls) :
               lastWrite'.calls[i].returned = "false")
       /\ lastWrite'.canceled =>
            /\ propertyValues' = propertyValues
            /\ UNCHANGED <<changesByObject, queue, nextFrameId, frames>>
       /\ ~lastWrite'.canceled =>
            propertyValues'[lastWrite'.source][lastWrite'.property]
              = lastWrite'.newValue]_vars

C16_Witness ==
  /\ Len(lastWrite.calls) = 3
  /\ lastWrite.calls[1].returned = "false"
  /\ lastWrite.calls[2].returned = "true"
  /\ lastWrite.calls[3].returned = "undefined"
  /\ lastWrite.canceled
  /\ propertyValues[lastWrite.source][lastWrite.property] # lastWrite.newValue
  /\ shareStore[lastWrite.source].changeListeners # <<>>
  /\ changesByObject = EmptyMap

\* C17: the third argument of a pre-commit listener call is true exactly when
\* a listener called before it in the same dispatch returned false.
C17_CanceledArgument ==
  [][IsWrite =>
       \A i \in 1..Len(lastWrite'.calls) :
         lastWrite'.calls[i].canceled <=>
           (\E j \in 1..(i - 1) : lastWrite'.calls[j].returned = "false")]_vars

C17_Witness ==
  /\ Len(lastWrite.calls) = 3
  /\ lastWrite.calls[1].returned = "false"
  /\ lastWrite.calls[2].returned # "false"
  /\ ~lastWrite.calls[1].canceled
  /\ lastWrite.calls[2].canceled
  /\ lastWrite.calls[3].canceled

\* the entries of a collection that hold a callback
EntriesOf(map, callback) == {i \in 1..Len(map) : map[i].callback = callback}
\* a collection after callback was added to it with priority: the callback
\* is in it once, with that priority, and nothing else has changed
AddedTo(before, after, callback, priority) ==
  /\ Cardinality(EntriesOf(after, callback)) = 1
  /\ \A i \in EntriesOf(after, callback) : after[i].priority = priority
  /\ Len(after) = IF MapHas(before, callback) THEN Len(before)
                  ELSE Len(before) + 1
  /\ \A i \in 1..Len(before) :
       before[i].callback # callback => after[i] = before[i]

\* C13: each callback is at most once in an owner's collection of change
\* listeners and of pre-commit listeners; adding a callback leaves it
\* registered once, with the priority of this call; a dispatch calls no
\* callback twice, calls it with the priority it was last added with, and
\* calls each registered callback once when no listener disturbs it.
C13_ListenerUniqueness ==
  /\ [](\A o \in Owners :
          /\ \A c \in CommitCallbacks :
               Cardinality(EntriesOf(shareStore[o].changeListeners, c)) <= 1
          /\ \A c \in PreCommitCallbacks :
               Cardinality(EntriesOf(shareStore[o].preCommitListeners, c)) <= 1)
  /\ [](\A k \in 1..Len(notified) :
          \A i \in 1..Len(notified[k].listeners) :
            LET calls == CallsTo(notified[k].source,
                                 notified[k].listeners[i].callback)
            IN /\ Cardinality(calls) <= 1
               /\ \A j \in calls :
                    log[j].priority = notified[k].listeners[i].priority
               /\ (/\ k < Len(notified) \/ ~notifying \/ ~ForEachHasNext
                   /\ Len(shareStore[notified[k].source].priorityQueue)
                        = Len(notified[k].listeners)) =>
                    Cardinality(calls) = 1)
  /\ [][/\ \A o \in Owners, c \in CommitCallbacks, n \in Priorities :
            (AddChangeListenerCall(o, c, n) \/ ListenerAdds(o, c, n)) =>
              AddedTo(shareStore[o].changeListeners,
                      shareStore'[o].changeListeners, c, n)
        /\ \A o \in Owners, c \in PreCommitCallbacks, n \in Priorities :
            AddPreCommitListenerCall(o, c, n) =>
              AddedTo(shareStore[o].preCommitListeners,
                      shareStore'[o].preCommitListeners, c, n)
        /\ (IsWrite /\ ~SetterNoop(lastWrite'.source, lastWrite'.property,
                                    lastWrite'.newValue)) =>
             \A i \in 1..Len(shareStore[lastWrite'.source].preCommitListeners) :
               Cardinality(EntriesOf(lastWrite'.calls,
                 shareStore[lastWrite'.source].preCommitListeners[i].callback))
                 = 1]_vars

\* a callback was added twice (three adds left two listeners) with priority 5
\* and then 1, and the dispatch has called it once, with priority 1
C13_Witness ==
  /\ used.registryOps = 3
  /\ flushing /\ notifying /\ ~ForEachHasNext
  /\ notified[1].listeners = <<[callback |-> "L1", priority |-> 1],
                               [callback |-> "L2", priority |-> 5]>>
  /\ shareStore["X"].preCommitListeners = <<>>
  /\ Len(log) = 2
  /\ log[1].callback = "L1" /\ log[1].priority = 1
  /\ log[2].callback = "L2"

\* C14 (as claimed): when the frame callback has gone through its snapshot,
\* after which the snapshot is dropped, the changes of every owner in it have
\* been passed to every change listener that was registered on the owner when
\* its dispatch started and still is.
C14_DeliveredToAll ==
  (flushing /\ ~notifying /\ processingQueue = <<>>) =>
    \A k \in 1..Len(notified) :
      \A c \in StillRegistered(notified[k]) :
        \E i \in CallsTo(notified[k].source, c) :
          log[i].changes = notified[k].changes

\* the place of an owner of the snapshot among the owners notified in the
\* flushed cycle
RankOf(source) ==
  processingCycle[source][CHOOSE p \in DOMAIN processingCycle[source] : TRUE].rank

\* C15: the dispatches of a flush are made to the owners in the order of the
\* first notified write made to each in the flushed cycle: the k-th dispatch
\* goes to the owner that was k-th to get a pending change.
C15_FlushOrder ==
  \A k \in 1..Len(notified) :
    /\ processingCycle[notified[k].source] # EmptyMap
    /\ RankOf(notified[k].source) = k

\* X was written first, then Y, then X again; X is dispatched before Y
C15_Witness ==
  /\ flushing
  /\ Len(notified) = 2
  /\ notified[1].source = "X" /\ notified[2].source = "Y"
  /\ Cardinality(DOMAIN processingCycle["X"]) = 2
  /\ lastWrite.source = "X"
  /\ used.writes = 3

\* C19: a commit listener call, whatever the listener returns, leaves the
\* stored values and the pending changes as they are and is followed by the
\* call of the next listener; the calls of a dispatch go to every registered
\* listener, in order, each with the changes map of the dispatch, whatever the
\* listeners called before returned.
C19_ReturnValueIgnored ==
  /\ [](\A k \in 1..Len(notified) :
          LET calls == DispatchCalls(notified[k].source)
              order == Callbacks(BuildPriorityQueue(notified[k].listeners, <<>>))
          IN /\ Len(calls) <= Len(order)
             /\ Callbacks(calls) = SubSeq(order, 1, Len(calls))
             /\ \A i \in 1..Len(calls) : calls[i].changes = notified[k].changes
             /\ (k < Len(notified) \/ ~notifying \/ ~ForEachHasNext) =>
                  Len(calls) = Len(order))
  /\ [][\A r \in RetVals :
          ListenerReturnsValue(r) =>
            /\ UNCHANGED <<propertyValues, backing, changesByObject, queue,
                           nextFrameId, frames, processingChanges>>
            /\ forEachIndex' = forEachIndex + 1]_vars

C19_Witness ==
  /\ flushing /\ notifying /\ ~ForEachHasNext
  /\ Len(notified[1].listeners) = 2
  /\ Len(log) = 2
  /\ log[1].returned = "false"
  /\ log[2].changes = log[1].changes
  /\ lastWrite.property \in DOMAIN log[2].changes
  /\ Read(lastWrite.source, lastWrite.property) = lastWrite.newValue

\* the property already has a setter made by createSetter
Bound(property) == prototype.descriptors[property].set > 0

\* C20: applying bindable to a property of the class that is already bound
\* raises no error and leaves the property's accessor pair as it was, with no
\* second wrapper around the first.
C20_DoubleBindIsNoop ==
  [][\A p \in Props :
       (Bound(p) /\ BindableCall(p)) =>
         /\ ~lastBind'.threw
         /\ prototype'.descriptors[p] = prototype.descriptors[p]]_vars

\* the step is an add/remove listener call (counted where the specification
\* bounds them)
IsRegistryCall == used'.registryOps # used.registryOps

\* the collection and the cached array of the kind a registry method works on
CollectionOf(op) ==
  IF op \in {"addChangeListener", "removeChangeListener"}
  THEN "changeListeners" ELSE "preCommitListeners"
CacheOf(op) ==
  IF op \in {"addChangeListener", "removeChangeListener"}
  THEN "priorityQueue" ELSE "preCommitPriorityQueue"

\* the array the next dispatch of the kind iterates, for a store record of one
\* owner: the cached one, rebuilt from the collection when empty
NextDispatch(record, op) ==
  IF Len(record[CacheOf(op)]) = 0
  THEN BuildPriorityQueue(record[CollectionOf(op)], <<>>)
  ELSE record[CacheOf(op)]

\* the recorded call removed a callback that was not registered
RemovedAbsent(r) ==
  /\ r.op \in {"removeChangeListener", "removePreCommitListener"}
  /\ ~MapHas(r.before[CollectionOf(r.op)], r.callback)

\* C21: removing a listener that was never added (of either kind, between or
\* during flushes) leaves both collections of the owner, with their
\* priorities, and the order of the next dispatch of either kind as they were.
C21_RemoveAbsent ==
  [][(IsRegistryCall /\ RemovedAbsent(lastRegistry')) =>
       LET r == lastRegistry'
           after == shareStore'[r.source]
       IN /\ after.changeListeners = r.before.changeListeners
          /\ after.preCommitListeners = r.before.preCommitListeners
          /\ NextDispatch(after, "removeChangeListener")
               = NextDispatch(r.before, "removeChangeListener")
          /\ NextDispatch(after, "removePreCommitListener")
               = NextDispatch(r.before, "removePreCommitListener")]_vars

\* a callback that was not registered has been removed from an owner that
\* has another listener, and the dispatch that follows called that listener
C21_Witness ==
  /\ RemovedAbsent(lastRegistry)
  /\ lastRegistry.op = "removeChangeListener"
  /\ ~lastRegistry.inFlush
  /\ Len(lastRegistry.before.changeListeners) = 1
  /\ shareStore["X"].changeListeners = lastRegistry.before.changeListeners
  /\ flushing /\ notifying /\ ~ForEachHasNext
  /\ Len(log) = 1
  /\ log[1].callback = lastRegistry.before.changeListeners[1].callback

\* C22 (as claimed): when a pre-commit listener throws during a write, the
\* property reads its pre-write value afterwards and nothing is enqueued or
\* armed for the write.
C22_ThrowKeepsState ==
  [][(IsWrite /\ lastWrite'.threw) =>
       /\ ReadNext(lastWrite'.source, lastWrite'.property) = lastWrite'.before
       /\ UNCHANGED <<propertyValues, changesByObject, queue, nextFrameId,
                      frames>>]_vars

\* the callbacks of a Map of callback -> priority
Keys(map) == {map[i].callback : i \in 1..Len(map)}

\* C23: the registries of two owners are independent: an add or remove call
\* on one owner leaves the collections of every other owner as they were; a
\* write calls only pre-commit listeners registered on the owner written; a
\* flush calls, with an owner as source, only listeners that were registered
\* on that owner when its dispatch started.
C23_OwnerIsolation ==
  /\ [][IsRegistryCall =>
          \A o \in Owners \ {lastRegistry'.source} :
            shareStore'[o] = shareStore[o]]_vars
  /\ [][IsWrite =>
          /\ \A i \in 1..Len(lastWrite'.calls) :
               lastWrite'.calls[i].callback
                 \in Keys(shareStore[lastWrite'.source].preCommitListeners)
          /\ \A o \in Owners \ {lastWrite'.source} :
               shareStore'[o] = shareStore[o]]_vars
  /\ [](\A i \in 1..Len(log) :
          \E k \in 1..Len(notified) :
            /\ notified[k].source = log[i].source
            /\ log[i].callback \in Keys(notified[k].listeners)
            /\ log[i].changes = notified[k].changes)

\* X and Y each have one change listener, not the other's; both were written
\* and one flush has called X's listener for X only and Y's for Y only
C23_Witness ==
  /\ Keys(shareStore["X"].changeListeners) = {"L1"}
  /\ Keys(shareStore["Y"].changeListeners) = {"L2"}
  /\ flushing /\ ~notifying /\ processingQueue = <<>>
  /\ Len(log) = 2
  /\ \E i, j \in 1..2 :
       /\ log[i].callback = "L1" /\ log[i].source = "X"
       /\ log[j].callback = "L2" /\ log[j].source = "Y"

\* a sequence without repeated elements
NoDuplicates(seq) ==
  \A i, j \in 1..Len(seq) : seq[i] = seq[j] => i = j

\* the sources of the notify() calls made so far in the flush in progress
NotifiedSources == [k \in 1..Len(notified) |-> notified[k].source]

\* C24: in a flush pass no owner is dispatched twice: the pending queue and
\* the snapshot hold each owner at most once, the owners already dispatched
\* are pairwise different and none of them is still waiting in the snapshot
\* (except the one whose dispatch is running), however many writes to however
\* many properties of the owner were enqueued.
C24_OwnerOncePerPass ==
  /\ NoDuplicates(queue)
  /\ NoDuplicates(processingQueue)
  /\ NoDuplicates(NotifiedSources)
  /\ \A k \in 1..Len(notified), i \in 1..Len(processingQueue) :
       notified[k].source = processingQueue[i] =>
         notifying /\ k = Len(notified) /\ i = 1

\* three writes to two properties of X were enqueued in one cycle, and the
\* flush has dispatched X once, with both properties in the map
C24_Witness ==
  /\ flushing /\ ~notifying /\ processingQueue = <<>>
  /\ used.writes = 3
  /\ Len(notified) = 1
  /\ notified[1].source = "X"
  /\ DOMAIN notified[1].changes = {"a", "b"}
  /\ Len(log) = 1

\* C25: at every point at most one frame callback is outstanding with the
\* scheduler, and one is outstanding exactly while nextFrameId holds a handle:
\* also after writes made by listeners during a flush and after the frame
\* callback's final check of the queue.
C25_SingleArmedFlush ==
  /\ frames \in {0, 1}
  /\ (frames = 1) <=> (nextFrameId # 0)

\* a listener wrote during a flush, that flush has made its final check and
\* returned, and exactly one callback is outstanding for the new change
C25_Witness ==
  /\ ~flushing
  /\ lastWrite.inFlush
  /\ queue # <<>>
  /\ lastWrite.source \in DOMAIN changesByObject
  /\ frames = 1

\* C26: the frame callback takes the pending owners and their changes maps as
\* its snapshot and empties the queue, the pending maps and nextFrameId in the
\* same step, before any listener is called; for the rest of the flush the
\* snapshot changes only by the removal of the owner just dispatched, so a
\* write made by a listener to an owner still waiting goes to the new pending
\* map, and every dispatch and every listener call of the flush gets the map
\* the snapshot holds for its owner.
C26_SnapshotIsolation ==
  /\ [][(~flushing /\ flushing') =>
          /\ processingQueue' = queue
          /\ processingChanges' = changesByObject
          /\ queue' = <<>>
          /\ changesByObject' = EmptyMap
          /\ nextFrameId' = 0
          /\ log' = <<>>]_vars
  /\ [][(flushing /\ flushing') =>
          /\ processingChanges' = processingChanges
          /\ processingQueue' \in {processingQueue, Tail(processingQueue)}
          /\ IsWrite => processingQueue' = processingQueue]_vars
  /\ [](flushing =>
          /\ \A k \in 1..Len(notified) :
               notified[k].changes = processingChanges[notified[k].source]
          /\ \A i \in 1..Len(log) :
               log[i].changes = processingChanges[log[i].source])

\* a listener of the first owner dispatched wrote a property of the second
\* owner of the snapshot; the second owner's dispatch has started with a map
\* that does not hold the value written, which is pending for the next flush
C26_Witness ==
  /\ flushing /\ notifying
  /\ Len(notified) = 2 /\ Len(log) = 1
  /\ log[1].source = notified[1].source
  /\ lastWrite.inFlush
  /\ lastWrite.source = notified[2].source
  /\ lastWrite.source \in DOMAIN changesByObject
  /\ lastWrite.property \in DOMAIN changesByObject[lastWrite.source]
  /\ lastWrite.property \in DOMAIN notified[2].changes
  /\ notified[2].changes[lastWrite.property].newValue # lastWrite.newValue
  /\ Read(lastWrite.source, lastWrite.property) = lastWrite.newValue

\* C27 (as claimed): when notify returns from the dispatch to an owner, every
\* change listener that was registered on the owner when the dispatch started,
\* and that no listener removed during it, has been called in that dispatch,
\* also when a listener added or removed a listener of the owner meanwhile.
C27_CompleteDispatch ==
  [][(notifying /\ ~notifying') =>
       LET n == notified[Len(notified)]
       IN \A c \in Keys(n.listeners) :
            c \in Keys(shareStore[n.source].changeListeners) =>
              \E i \in 1..Len(log) :
                log[i].source = n.source /\ log[i].callback = c]_vars

\* the stable ascending-priority order of a collection
Ordered(map) == BuildPriorityQueue(map, <<>>)

\* C28: a cached array is either empty or the stable ascending-priority order
\* of the collection as it is now; every add or remove call empties the cache
\* of its kind; the array a commit dispatch starts to iterate, and the array a
\* pre-commit dispatch iterates, is the order of the current collection with
\* the current priorities, and a pre-commit dispatch calls exactly these.
C28_CacheFresh ==
  /\ [](\A o \in Owners :
          /\ shareStore[o].priorityQueue
               \in {<<>>, Ordered(shareStore[o].changeListeners)}
          /\ shareStore[o].preCommitPriorityQueue
               \in {<<>>, Ordered(shareStore[o].preCommitListeners)})
  /\ [][IsRegistryCall =>
          shareStore'[lastRegistry'.source][CacheOf(lastRegistry'.op)] = <<>>]_vars
  /\ [][(~notifying /\ notifying') =>
          LET source == Head(processingQueue)
          IN /\ shareStore'[source].priorityQueue
                  = Ordered(shareStore[source].changeListeners)
             /\ forEachLen' = Len(shareStore[source].changeListeners)]_vars
  /\ [][(IsWrite /\ ~SetterNoop(lastWrite'.source, lastWrite'.property,
                                lastWrite'.newValue)) =>
          LET order == Ordered(shareStore[lastWrite'.source].preCommitListeners)
          IN /\ Len(lastWrite'.calls) = Len(order)
             /\ \A i \in 1..Len(order) :
                  /\ lastWrite'.calls[i].callback = order[i].callback
                  /\ lastWrite'.calls[i].priority = order[i].priority]_vars

\* an earlier flush built the cache; then a listener with a smaller priority
\* was added, and the next dispatch called it before the listener cached
C28_Witness ==
  /\ delivered # {}
  /\ lastRegistry.op = "addChangeListener"
  /\ ~lastRegistry.inFlush
  /\ Len(lastRegistry.before.priorityQueue) = 1
  /\ flushing /\ notifying /\ ~ForEachHasNext
  /\ Len(log) = 2
  /\ log[1].callback = lastRegistry.callback
  /\ log[2].callback = lastRegistry.before.priorityQueue[1].callback
  /\ log[1].priority < log[2].priority

\* C29: the changes map of a flush holds only properties written, with a
\* notified write, since the snapshot of the flush before it, with the value
\* of the last such write; the snapshot empties the pending maps, and what was
\* given to an earlier flush is pending again only if it was written again in
\* the current cycle.
C29_AtMostOnce ==
  /\ [](flushing =>
          \A s \in DOMAIN processingChanges :
            \A p \in DOMAIN processingChanges[s] :
              /\ p \in DOMAIN processingCycle[s]
              /\ processingChanges[s][p].newValue = processingCycle[s][p].last)
  /\ [](\A d \in delivered :
          (d[1] \in DOMAIN changesByObject
             /\ d[2] \in DOMAIN changesByObject[d[1]]) =>
            d[2] \in DOMAIN cycle[d[1]])
  /\ [][(~flushing /\ flushing') =>
          /\ changesByObject' = EmptyMap
          /\ \A o \in Owners : cycle'[o] = EmptyMap]_vars

\* property a was given to an earlier flush and is still set; property b was
\* written afterwards, and the flush in progress has called a listener with a
\* map that holds b only
C29_Witness ==
  /\ <<"X", "a">> \in delivered
  /\ Read("X", "a") # 0
  /\ flushing
  /\ Len(log) > 0
  /\ DOMAIN log[1].changes = {"b"}

\* C30: a change listener is called only while it is registered on the owner
\* it is called for; when the latest registry call, made outside a flush,
\* removed a listener, the flush that follows does not call that listener,
\* whether or not the change was enqueued while it was registered.
C30_RemovedNotCalled ==
  /\ [][Len(log') > Len(log) =>
          LET call == log'[Len(log')]
          IN call.callback \in Keys(shareStore[call.source].changeListeners)]_vars
  /\ []((lastRegistry.op = "removeChangeListener" /\ ~lastRegistry.inFlush) =>
          \A i \in 1..Len(log) :
            ~(log[i].source = lastRegistry.source
                /\ log[i].callback = lastRegistry.callback))

\* two listeners were cached by an earlier flush; a change was enqueued while
\* both were registered; one was removed before the frame callback ran, and
\* the flush has called the other one only
C30_Witness ==
  /\ delivered # {}
  /\ lastRegistry.op = "removeChangeListener"
  /\ lastRegistry.pending /\ ~lastRegistry.inFlush
  /\ MapHas(lastRegistry.before.changeListeners, lastRegistry.callback)
  /\ Len(lastRegistry.before.priorityQueue) = 2
  /\ flushing /\ notifying /\ ~ForEachHasNext
  /\ Len(log) = 1
  /\ log[1].callback # lastRegistry.callback

\* C31: a write that a pre-commit listener vetoes leaves the scheduler as it
\* was: the pending queue, the pending changes map of every owner, with the
\* entries earlier accepted writes made for the same owner and property, and
\* nextFrameId with the callbacks requested.
C31_VetoLeavesScheduler ==
  [][(IsWrite /\ WasVetoed(lastWrite')) =>
       UNCHANGED <<changesByObject, queue, nextFrameId, frames>>]_vars

\* an accepted write of the property is pending; a second write of another
\* value to the same property was vetoed, and the entry still holds the first
C31_Witness ==
  /\ lastWrite.source \in DOMAIN changesByObject
  /\ lastWrite.property \in DOMAIN changesByObject[lastWrite.source]
  /\ WasVetoed(lastWrite)
  /\ lastWrite.canceled
  /\ lastWrite.newValue # lastWrite.before
  /\ changesByObject[lastWrite.source][lastWrite.property].newValue
       # lastWrite.newValue
  /\ nextFrameId # 0 /\ frames = 1

\* C32: an entry of an owner's pending changes map stays in the map until the
\* frame callback takes its snapshot: no write (accepted, vetoed or no-op, to
\* the same or another property), no change of suspendNotifications and no
\* add or remove listener call removes it.
C32_PendingEntryStable ==
  [][~(~flushing /\ flushing') =>
       \A s \in DOMAIN changesByObject :
         /\ s \in DOMAIN changesByObject'
         /\ \A p \in DOMAIN changesByObject[s] :
              p \in DOMAIN changesByObject'[s]]_vars

\* an entry is pending for an owner that has since lost its listeners and
\* been suspended, and whose latest write, to the same property, was vetoed
C32_Witness ==
  /\ ~flushing
  /\ lastWrite.source \in DOMAIN changesByObject
  /\ lastWrite.property \in DOMAIN changesByObject[lastWrite.source]
  /\ lastWrite.canceled
  /\ suspendNotifications[lastWrite.source]
  /\ shareStore[lastWrite.source].changeListeners = <<>>

\* a change listener throws in this step
IsThrow == flushing /\ ForEachHasNext /\ ~notifying'

\* C33: when a change listener throws, the flush callback is left at once (no
\* listener of that owner or of an owner later in the snapshot can be called
\* any more), nothing of the snapshot goes back to the pending maps, the
\* queue or the frame, and a later flush holds a property of the owners that
\* were cut off only when it was written again, with the values of that write.
C33_NoRecovery ==
  /\ [][IsThrow =>
          /\ ~flushing'
          /\ processingQueue' = <<>>
          /\ UNCHANGED <<changesByObject, queue, nextFrameId, frames>>]_vars
  /\ []((flushing /\ lastThrow.source # "none") =>
          \A k \in 1..Len(lastThrow.queue) :
            LET s == lastThrow.queue[k]
            IN \A p \in DOMAIN lastThrow.changes[s] :
                 (s \in DOMAIN processingChanges
                    /\ p \in DOMAIN processingChanges[s]) =>
                   /\ p \in DOMAIN processingCycle[s]
                   /\ processingChanges[s][p] =
                        [oldValue |-> processingCycle[s][p].lastOld,
                         newValue |-> processingCycle[s][p].last])

\* X and Y were in the snapshot when X's listener threw; Y's change was never
\* given to a listener and Y still holds the value; a later flush, caused by
\* another write to X, calls X's listener and does not visit Y
C33_Witness ==
  /\ lastThrow.source = "X"
  /\ lastThrow.queue = <<"X", "Y">>
  /\ "a" \in DOMAIN lastThrow.changes["Y"]
  /\ Read("Y", "a") = lastThrow.changes["Y"]["a"].newValue
  /\ <<"Y", "a">> \notin delivered
  /\ flushing
  /\ Len(log) = 1
  /\ log[1].source = "X"
  /\ "Y" \notin DOMAIN processingChanges
  /\ "Y" \notin DOMAIN changesByObject

\* the pending maps hold only what was written in the current cycle, that is,
\* since the latest snapshot was taken
PendingIsOfCycle ==
  \A s \in DOMAIN changesByObject :
    \A p \in DOMAIN changesByObject[s] :
      /\ p \in DOMAIN cycle[s]
      /\ changesByObject[s][p].newValue = cycle[s][p].last

\* C39 (as claimed): when a change listener throws, nextFrameId is left empty.
C39_ArmedFlagClear ==
  [][IsThrow => nextFrameId' = 0]_vars

\* C39 (amended): when a change listener throws, a frame callback is left
\* requested (with its handle in nextFrameId) exactly if something was written
\* since the snapshot of that flush, and only that is pending; a notified
\* write made after a throw is pending with a frame callback requested, and
\* the next frame callback takes everything pending as its snapshot.
C39_SchedulerSurvives ==
  /\ [][IsThrow =>
          /\ (nextFrameId' # 0) <=> (queue' # <<>>)
          /\ (nextFrameId' # 0) <=> (frames' = 1)
          /\ \A o \in Owners :
               (o \in DOMAIN changesByObject') <=> (cycle'[o] # EmptyMap)]_vars
  /\ [](lastThrow.source # "none" => PendingIsOfCycle)
  /\ [][(IsWrite /\ WasNotifiable /\ lastThrow.source # "none") =>
          /\ nextFrameId' # 0
          /\ frames' = 1
          /\ lastWrite'.source \in DOMAIN changesByObject'
          /\ lastWrite'.property \in
               DOMAIN changesByObject'[lastWrite'.source]]_vars
  /\ [][(~flushing /\ flushing' /\ lastThrow.source # "none") =>
          /\ processingChanges' = changesByObject
          /\ processingQueue' = queue]_vars

\* Y's listener threw while a write that X's listener had made in the same
\* flush was pending; the frame callback requested for that write now runs
\* and has called X's listener with that change
C39_Witness ==
  /\ lastThrow.source = "Y"
  /\ "X" \in DOMAIN lastThrow.pending
  /\ flushing
  /\ Len(log) = 1
  /\ log[1].source = "X"
  /\ log[1].changes = lastThrow.pending["X"]
  /\ lastWrite.inFlush
  /\ lastWrite.source = "X"
  /\ Read("X", lastWrite.property) = log[1].changes[lastWrite.property].newValue

C35_EqualWriteSkipsPreCommit ==
  [][(IsWrite /\ ~HasSet(lastWrite'.property)
        /\ lastWrite'.newValue = lastWrite'.before) =>
       lastWrite'.calls = <<>>]_vars

\* the collection and the cached array of the kind a registry method does not
\* work on
OtherCollectionOf(op) ==
  IF op \in {"addChangeListener", "removeChangeListener"}
  THEN "preCommitListeners" ELSE "changeListeners"
OtherCacheOf(op) ==
  IF op \in {"addChangeListener", "removeChangeListener"}
  THEN "preCommitPriorityQueue" ELSE "priorityQueue"

\* C36: an add/remove call of one kind leaves the collection and the cached
\* array of the other kind as they were; every callback the setter's
\* pre-commit dispatch calls is in the pre-commit collection at the write, and
\* every callback a flush calls is in the owner's change listener collection
\* as it was when the owner's dispatch began.
C36_KindsIndependent ==
  /\ [][IsRegistryCall =>
          LET r == lastRegistry'
              after == shareStore'[r.source]
          IN /\ after[OtherCollectionOf(r.op)] = r.before[OtherCollectionOf(r.op)]
             /\ after[OtherCacheOf(r.op)] = r.before[OtherCacheOf(r.op)]]_vars
  /\ [][IsWrite =>
          \A i \in 1..Len(lastWrite'.calls) :
            MapHas(shareStore[lastWrite'.source].preCommitListeners,
                   lastWrite'.calls[i].callback)]_vars
  /\ [](\A k \in 1..Len(log) :
          \E n \in 1..Len(notified) :
            /\ notified[n].source = log[k].source
            /\ MapHas(notified[n].listeners, log[k].callback))

\* L1 is a change listener only and P1 a pre-commit listener only: the write
\* called P1 and nothing else, the flush called L1 and nothing else
C36_Witness ==
  /\ MapHas(shareStore["X"].changeListeners, "L1")
  /\ ~MapHas(shareStore["X"].preCommitListeners, "L1")
  /\ MapHas(shareStore["X"].preCommitListeners, "P1")
  /\ ~MapHas(shareStore["X"].changeListeners, "P1")
  /\ Len(lastWrite.calls) = 1
  /\ lastWrite.calls[1].callback = "P1"
  /\ flushing /\ notifying /\ ~ForEachHasNext
  /\ Len(log) = 1
  /\ log[1].callback = "L1"
  /\ lastWrite.property \in DOMAIN log[1].changes

\* the owners in the pending queue
Queued == {queue[k] : k \in 1..Len(queue)}

\* C37: in every state nextFrameId holds a handle exactly when the pending
\* queue is not empty, and an owner is in the pending queue exactly when
\* changesByObject has a changes map for it with at least one entry: between
\* flushes, during a flush, and after a flush that a throwing listener ended.
C37_ArmedIffPending ==
  /\ (nextFrameId # 0) <=> (queue # <<>>)
  /\ \A o \in Owners :
       (o \in Queued) <=>
         (o \in DOMAIN changesByObject /\ changesByObject[o] # EmptyMap)

\* during a flush whose snapshot held X and Y, a listener has written to Y:
\* Y alone is pending again and a frame callback is requested, X is not
C37_Witness ==
  /\ flushing
  /\ Len(notified) > 0
  /\ "X" \in DOMAIN processingChanges
  /\ "Y" \in DOMAIN processingChanges
  /\ queue = <<"Y">>
  /\ nextFrameId # 0
  /\ "X" \notin DOMAIN changesByObject
  /\ changesByObject["Y"] # EmptyMap
  /\ lastWrite.inFlush

\* C38: a write that is not vetoed, made while the owner has no change
\* listener, leaves the pending maps, the queue and the frame request as they
\* were; and the map of a flush holds a property only if a write made since
\* the previous snapshot, with a change listener present, put it there, with
\* the value of the last such write: adding a listener afterwards brings
\* nothing back.
C38_SampledAtWrite ==
  /\ [][(IsWrite /\ ~WasVetoed(lastWrite')
          /\ GetChangeListeners(shareStore, lastWrite'.source) = <<>>) =>
          UNCHANGED <<changesByObject, queue, nextFrameId, frames>>]_vars
  /\ [](flushing =>
          \A k \in 1..Len(log) :
            \A p \in DOMAIN log[k].changes :
              /\ p \in DOMAIN processingCycle[log[k].source]
              /\ log[k].changes[p].newValue =
                   processingCycle[log[k].source][p].last)

\* property a was written before X had a change listener and holds the value;
\* the listener was added, b was written, and the flush has called the
\* listener with a map that holds b only; a is not pending either
C38_Witness ==
  /\ Read("X", "a") # 0
  /\ <<"X", "a">> \notin delivered
  /\ lastRegistry.op = "addChangeListener"
  /\ lastRegistry.before.changeListeners = <<>>
  /\ ~lastRegistry.inFlush
  /\ flushing
  /\ Len(log) = 1
  /\ DOMAIN log[1].changes = {"b"}
  /\ "X" \notin DOMAIN changesByObject
  /\ lastWrite.property = "b"
  /\ ~lastWrite.inFlush

\* C40: every entry of every changes map a change listener is called with, and
\* every entry pending or held by a snapshot, has an oldValue that differs
\* from its newValue, whatever was written in the cycle.
C40_EntriesDiffer ==
  /\ \A k \in 1..Len(log) :
       \A p \in DOMAIN log[k].changes :
         log[k].changes[p].oldValue # log[k].changes[p].newValue
  /\ \A s \in DOMAIN changesByObject :
       \A p \in DOMAIN changesByObject[s] :
         changesByObject[s][p].oldValue # changesByObject[s][p].newValue
  /\ \A s \in DOMAIN processingChanges :
       \A p \in DOMAIN processingChanges[s] :
         processingChanges[s][p].oldValue # processingChanges[s][p].newValue

\* a plain property was written away from its value and back to it within one
\* cycle, and the listener has been called with an entry for it
C40_Witness ==
  \E k \in 1..Len(log) :
    \E p \in DOMAIN log[k].changes \cap DOMAIN processingCycle[log[k].source] :
      /\ ~HasSet(p)
      /\ processingCycle[log[k].source][p].first =
           processingCycle[log[k].source][p].last
      /\ Read(log[k].source, p) = processingCycle[log[k].source][p].first
      /\ log[k].changes[p].newValue = processingCycle[log[k].source][p].last

====
